---- MODULE Spec2Model ----
(***************************************************************************)
(* Reaction-role engine of TLDMotto (src/botto/mixins/reaction_roles.py).  *)
(* Every handle_reaction invocation is one asyncio task; tasks interleave  *)
(* at their awaits.  Each action below is the code between two awaits.     *)
(***************************************************************************)
EXTENDS Naturals, Integers, Sequences, FiniteSets, TLC

\* ---------------------------------------------------------------- bounds
Procs == {"h1", "h2"}            \* concurrently running handle_reaction tasks
MaxTime == 45                    \* wall clock stops advancing here (minutes)
TickMinutes == 15                \* granularity of the wall clock

\* ------------------------------------------------------ program constants
CooldownMinutes == 30            \* timedelta(minutes=30)

\* -------------------------------------------------------------- universe
TesterUsers == {"u1", "u2"}      \* external-chat user ids of reacting members
Moderator == "mod"
ApprovalChannel == "approvals"
DefaultApprovalChannel == "default_approvals"
WatchChannel == "watch"
WatchedMessage == 1              \* the "request access" post
processing_emoji == "processing" \* the hourglass

\* Python values whose type decides a comparison are kept with their type.
PyStr(n) == <<"str", n>>
PyInt(v) == <<"int", v[2]>>
PyNone == <<"none", 0>>
PyBool(v) == v[1] # "none"
ReactionObj(e) == <<"Reaction", e>>

NoTester == [id |-> 0, discord_id |-> "", username |-> "", email |-> FALSE,
             reg |-> PyNone, leave |-> {}]
NoRequest == [id |-> 0, tester |-> 0, tester_discord_id |-> "", app |-> "",
              status |-> "PENDING", removed |-> FALSE, notif |-> PyNone,
              further |-> << >>]
NoPayload == [user |-> "", msg |-> 0, emoji |-> "", channel |-> ""]
NoLocals == [tester |-> NoTester, request |-> NoRequest, existing |-> << >>,
             prev |-> FALSE, others |-> {}, lock |-> "", app_ids |-> << >>,
             fetched |-> "", err |-> [ref |-> 0, member |-> ""],
             removed_app_ids |-> {}, roles |-> {}]

VARIABLES
    pc,             \* position of each handle_reaction task
    payload,        \* the RawReactionActionEvent of each task
    failAt,         \* the collaborator call that fails for this task, if any
    loc,            \* local variables of each task
    handled,        \* handle_reaction's local `handled`
    exc,            \* exception in flight in each task
    eff,            \* outbound actions each task has performed, in order
    testers,        \* store: Tester records, by record id
    requests,       \* store: TestingRequest records, by record id
    messages,       \* chat platform: messages by id
    cache,          \* ids of messages held in the client's message cache
    pendingAdds,    \* add_reaction tasks created by gather() and not yet run
    memberRoles,    \* guild roles held by each member
    groupMembers,   \* distribution-group membership: <<discord id, app>>
    tester_locks,   \* WeakValueDictionary: user id -> live lock
    lockHolder,     \* lock -> task holding it
    now             \* wall clock, minutes

vars == <<pc, payload, failAt, loc, handled, exc, eff, testers, requests,
          messages, cache, pendingAdds, memberRoles, groupMembers,
          tester_locks, lockHolder, now>>

\* ------------------------------------------------------------- helpers
Range(s) == {s[i] : i \in 1..Len(s)}

Min(S) == CHOOSE x \in S : \A y \in S : x <= y

Emit(p, es) == eff' = [eff EXCEPT ![p] = @ \o es]
Goto(p, label) == pc' = [pc EXCEPT ![p] = label]

\* discord.Message.reactions is a list of Reaction objects
MsgReactions(m) == {ReactionObj(e) : e \in messages[m].reactions}

\* app -> ids of the roles mapped to it (TestingRequest.app_reaction_roles_ids)
AppRoles(app) == IF app = "A" THEN {"roleA"} ELSE {"roleB"}

\* ------------------------------------------------------- store adapter
\* fetch_request(message_id): the request one of whose notification ids is
\* the message, oldest first; NoRequest when there is none
RequestsForMessage(mid) ==
    {i \in 1..Len(requests) :
        \/ requests[i].notif = PyStr(mid)
        \/ PyStr(mid) \in Range(requests[i].further)}

fetch_request(mid) ==
    IF RequestsForMessage(mid) = {} THEN NoRequest
    ELSE requests[Min(RequestsForMessage(mid))]

\* update_request(request): the record is written back under its id
update_request(r) == requests' = [requests EXCEPT ![r.id] = r]

\* fetch_tester(record id)
fetch_tester(id) == IF id \in 1..Len(testers) THEN testers[id] ELSE NoTester

\* fetch_app(record id): the App record, if the store has one
KnownApps == {"A", "B"}
fetch_app(app) == app \in KnownApps

\* find_tester_by_leave_message(message_id)
find_tester_by_leave_message(mid) ==
    IF \E i \in 1..Len(testers) : mid \in testers[i].leave
    THEN testers[Min({i \in 1..Len(testers) : mid \in testers[i].leave})]
    ELSE NoTester

\* ------------------------------------------------- chat platform helpers
is_approval_channel(channel) ==
    channel \in {ApprovalChannel, DefaultApprovalChannel}

\* check_valid_role_reaction_channel: approval channel and own message
check_valid_role_reaction_channel(p) ==
    /\ is_approval_channel(payload[p].channel)
    /\ payload[p].msg \in 1..Len(messages)
    /\ messages[payload[p].msg].author = "self"

add_reaction(m, e) ==
    messages' = [messages EXCEPT ![m].reactions = @ \cup {e}]

\* mark_request_messages_handled's filter: `primary_reaction not in
\* m.reactions and reaction not in m.reactions` with str operands and a list
\* of Reaction objects
NeedsMark(rs, reaction, primary_reaction) ==
    /\ PyStr(primary_reaction) \notin rs
    /\ PyStr(reaction) \notin rs

\* get_other_request_messages: the comprehension variable message_id shadows
\* the parameter, so each further id is compared with its own int()
OtherMessageIds(message_id, r) ==
    {f[2] : f \in {g \in Range(r.further) : PyInt(g) # g}}
    \cup (IF PyInt(r.notif) # <<"int", message_id>> THEN {r.notif[2]} ELSE {})

\* cached messages are the live objects, fetched ones a snapshot
get_other_request_messages(message_id, r) ==
    {[id |-> m, cached |-> m \in cache, reactions |-> MsgReactions(m)] :
        m \in OtherMessageIds(message_id, r)}

\* the reactions list mark_request_messages_handled sees on a message
SeenReactions(o) == IF o.cached THEN MsgReactions(o.id) ELSE o.reactions

\* the add_reaction tasks gather() creates for one transition's fan-out
FanOutTasks(p, reaction, primary_reaction) ==
    {<<p, o.id, reaction>> :
        o \in {x \in loc[p].others :
                 NeedsMark(SeenReactions(x), reaction, primary_reaction)}}

\* ------------------------------------------------------- handle_reaction
\* the task for one reaction-add event is created
Start(p, pl, f) ==
    /\ pc[p] = "idle"
    /\ payload' = [payload EXCEPT ![p] = pl]
    /\ failAt' = [failAt EXCEPT ![p] = f]
    /\ loc' = [loc EXCEPT ![p].roles =
                 IF pl.user \in DOMAIN memberRoles THEN memberRoles[pl.user]
                 ELSE {}]
    /\ Goto(p, "rr_watched")
    /\ UNCHANGED <<handled, exc, eff, testers, requests, messages, cache,
                   pendingAdds, memberRoles, groupMembers, tester_locks,
                   lockHolder, now>>

\* raise inside the try block of handle_reaction
Raise(p, kind) ==
    /\ exc' = [exc EXCEPT ![p] = kind]
    /\ Goto(p, CASE kind = "AirTableError" -> "ex_airtable"
                 [] kind = "ReactionRoleError" -> "ex_rre"
                 [] OTHER -> "finally")

\* raise ReactionRoleError(message, message.to_reference(), payload.member)
RaiseReactionRoleError(p) ==
    /\ Raise(p, "ReactionRoleError")
    /\ loc' = [loc EXCEPT ![p].err = [ref |-> payload[p].msg,
                                      member |-> payload[p].user]]

\* ------------------------------------------------- handle_role_approval
ApprovalCheckChannel(p) ==
    /\ pc[p] = "ap_check"
    /\ IF check_valid_role_reaction_channel(p) /\ payload[p].emoji = "approve"
       THEN Goto(p, "ap_fetch")
       ELSE Goto(p, "rj_check")
    /\ UNCHANGED <<payload, failAt, loc, handled, exc, eff, testers, requests,
                   messages, cache, pendingAdds, memberRoles, groupMembers,
                   tester_locks, lockHolder, now>>

\* variant: the REJECTED guard is missing
ApprovalFetchRequest_NoRejectedGuard(p) ==
    /\ pc[p] = "ap_fetch"
    /\ LET r == fetch_request(payload[p].msg) IN
       IF failAt[p] = "fetch_request"
       THEN /\ Raise(p, "AirTableError")
            /\ UNCHANGED <<loc, eff>>
       ELSE IF r = NoRequest
       THEN /\ Emit(p, << <<"approval", "reply", "no_request">> >>)
            /\ Goto(p, "rj_check")
            /\ UNCHANGED <<loc, exc>>
       ELSE IF r.status = "REJECTED" /\ FALSE
       THEN /\ Emit(p, << <<"approval", "reply", "previously_rejected">> >>)
            /\ loc' = [loc EXCEPT ![p].request = r, ![p].fetched = r.status]
            /\ Goto(p, "rj_check")
            /\ UNCHANGED exc
       ELSE /\ loc' = [loc EXCEPT ![p].request = r, ![p].fetched = r.status,
                                  ![p].prev = (r.status = "APPROVED")]
            /\ Goto(p, "ap_fetch_ta")
            /\ UNCHANGED <<eff, exc>>
    /\ UNCHANGED <<payload, failAt, handled, testers, requests, messages,
                   cache, pendingAdds, memberRoles, groupMembers,
                   tester_locks, lockHolder, now>>

ApprovalFetchRequest(p) ==
    /\ pc[p] = "ap_fetch"
    /\ LET r == fetch_request(payload[p].msg) IN
       IF failAt[p] = "fetch_request"
       THEN /\ Raise(p, "AirTableError")
            /\ UNCHANGED <<loc, eff>>
       ELSE IF r = NoRequest
       THEN /\ Emit(p, << <<"approval", "reply", "no_request">> >>)
            /\ Goto(p, "rj_check")
            /\ UNCHANGED <<loc, exc>>
       ELSE IF r.status = "REJECTED"
       THEN /\ Emit(p, << <<"approval", "reply", "previously_rejected">> >>)
            /\ loc' = [loc EXCEPT ![p].request = r, ![p].fetched = r.status]
            /\ Goto(p, "rj_check")
            /\ UNCHANGED exc
       ELSE /\ loc' = [loc EXCEPT ![p].request = r, ![p].fetched = r.status,
                                  ![p].prev = (r.status = "APPROVED")]
            /\ Goto(p, "ap_fetch_ta")
            /\ UNCHANGED <<eff, exc>>
    /\ UNCHANGED <<payload, failAt, handled, testers, requests, messages,
                   cache, pendingAdds, memberRoles, groupMembers,
                   tester_locks, lockHolder, now>>

\* variant: a missing app record is not looked at
ApprovalFetchTesterApp_NoAppCheck(p) ==
    /\ pc[p] = "ap_fetch_ta"
    /\ LET t == fetch_tester(loc[p].request.tester) IN
       IF t = NoTester
       THEN RaiseReactionRoleError(p)
       ELSE /\ loc' = [loc EXCEPT ![p].tester = t,
                                  ![p].request.status = "APPROVED"]
            /\ Goto(p, "ap_group")
            /\ UNCHANGED exc
    /\ UNCHANGED <<payload, failAt, handled, eff, testers, requests, messages,
                   cache, pendingAdds, memberRoles, groupMembers,
                   tester_locks, lockHolder, now>>

\* fetch tester and app in one TaskGroup, then set the local status
ApprovalFetchTesterApp(p) ==
    /\ pc[p] = "ap_fetch_ta"
    /\ LET t == fetch_tester(loc[p].request.tester) IN
       IF t = NoTester \/ ~fetch_app(loc[p].request.app)
       THEN RaiseReactionRoleError(p)
       ELSE /\ loc' = [loc EXCEPT ![p].tester = t,
                                  ![p].request.status = "APPROVED"]
            /\ Goto(p, "ap_group")
            /\ UNCHANGED exc
    /\ UNCHANGED <<payload, failAt, handled, eff, testers, requests, messages,
                   cache, pendingAdds, memberRoles, groupMembers,
                   tester_locks, lockHolder, now>>

\* add_tester_to_group: find_beta_tester, then create_beta_tester unless the
\* tester is already in the app's group
\* An AppStoreConnectError of the call is caught inside add_tester_to_group:
\* ApiKeyNotSetError and BetaGroupNotSetError are reported and swallowed,
\* InvalidAttributeError is reported and raised again (handle_role_approval
\* then returns), any other AppStoreConnectError matches no case.
ApprovalAddToGroup(p) ==
    /\ pc[p] = "ap_group"
    /\ LET member == <<loc[p].tester.discord_id, loc[p].request.app>>
           find == <<"approval", "dist_find", member[2]>> IN
       IF failAt[p] \in {"ApiKeyNotSetError", "BetaGroupNotSetError"}
       THEN /\ Emit(p, <<find, <<"approval", "reply", failAt[p]>> >>)
            /\ Goto(p, "ap_roles")
            /\ UNCHANGED groupMembers
       ELSE IF failAt[p] = "InvalidAttributeError"
       THEN /\ Emit(p, <<find, <<"approval", "reply", failAt[p]>> >>)
            /\ Goto(p, "rj_check")
            /\ UNCHANGED groupMembers
       ELSE IF failAt[p] = "AppStoreConnectError"
       THEN /\ Emit(p, <<find>>)
            /\ Goto(p, "ap_roles")
            /\ UNCHANGED groupMembers
       ELSE /\ groupMembers' = groupMembers \cup {member}
            /\ Emit(p, IF member \in groupMembers
                       THEN <<find>>
                       ELSE <<find, <<"approval", "dist_create", member[2]>> >>)
            /\ Goto(p, "ap_roles")
    /\ UNCHANGED <<payload, failAt, loc, handled, exc, testers, requests,
                   messages, cache, pendingAdds, memberRoles, tester_locks,
                   lockHolder, now>>

\* add_roles unless the member holds all roles of the app; a failing
\* add_roles becomes a ReactionRoleError
ApprovalGrantRoles(p) ==
    /\ pc[p] = "ap_roles"
    /\ LET u == loc[p].tester.discord_id
           roles == AppRoles(loc[p].request.app) IN
       IF roles \subseteq memberRoles[u]
       THEN /\ Goto(p, "ap_notify")
            /\ UNCHANGED <<memberRoles, eff, exc, loc>>
       ELSE IF failAt[p] = "add_roles"
       THEN /\ RaiseReactionRoleError(p)
            /\ UNCHANGED <<memberRoles, eff>>
       ELSE /\ memberRoles' = [memberRoles EXCEPT ![u] = @ \cup roles]
            /\ Emit(p, << <<"approval", "add_roles", u>> >>)
            /\ Goto(p, "ap_notify")
            /\ UNCHANGED <<exc, loc>>
    /\ UNCHANGED <<payload, failAt, handled, testers, requests,
                   messages, cache, pendingAdds, groupMembers, tester_locks,
                   lockHolder, now>>

\* variant: the private notice is sent on every approval
ApprovalNotify_Always(p) ==
    /\ pc[p] = "ap_notify"
    /\ Emit(p, << <<"approval", "dm_approved",
                    loc[p].request.tester_discord_id>> >>)
    /\ Goto(p, "ap_write")
    /\ UNCHANGED <<payload, failAt, loc, handled, exc, testers, requests,
                   messages, cache, pendingAdds, memberRoles, groupMembers,
                   tester_locks, lockHolder, now>>

\* variant: the already-approved flag is tested the wrong way round
ApprovalNotify_Inverted(p) ==
    /\ pc[p] = "ap_notify"
    /\ IF ~loc[p].prev
       THEN UNCHANGED eff
       ELSE Emit(p, << <<"approval", "dm_approved",
                         loc[p].request.tester_discord_id>> >>)
    /\ Goto(p, "ap_write")
    /\ UNCHANGED <<payload, failAt, loc, handled, exc, testers, requests,
                   messages, cache, pendingAdds, memberRoles, groupMembers,
                   tester_locks, lockHolder, now>>

\* variant: the request is written even when the notice cannot be sent
ApprovalNotify_WritesOnFailure(p) ==
    /\ pc[p] = "ap_notify"
    /\ IF loc[p].prev
       THEN /\ Goto(p, "ap_write")
            /\ UNCHANGED <<eff, exc, loc, requests>>
       ELSE IF failAt[p] = "send_approval_notification"
       THEN /\ RaiseReactionRoleError(p)
            /\ update_request(loc[p].request)
            /\ Emit(p, << <<"approval", "update_request",
                            loc[p].request.id>> >>)
       ELSE /\ Emit(p, << <<"approval", "dm_approved",
                            loc[p].request.tester_discord_id>> >>)
            /\ Goto(p, "ap_write")
            /\ UNCHANGED <<exc, loc, requests>>
    /\ UNCHANGED <<payload, failAt, handled, testers,
                   messages, cache, pendingAdds, memberRoles, groupMembers,
                   tester_locks, lockHolder, now>>

\* send_approval_notification unless the request was already approved; a
\* failing send becomes a ReactionRoleError
ApprovalNotify(p) ==
    /\ pc[p] = "ap_notify"
    /\ IF loc[p].prev
       THEN /\ Goto(p, "ap_write")
            /\ UNCHANGED <<eff, exc, loc>>
       ELSE IF failAt[p] = "send_approval_notification"
       THEN /\ RaiseReactionRoleError(p)
            /\ UNCHANGED eff
       ELSE /\ Emit(p, << <<"approval", "dm_approved",
                            loc[p].request.tester_discord_id>> >>)
            /\ Goto(p, "ap_write")
            /\ UNCHANGED <<exc, loc>>
    /\ UNCHANGED <<payload, failAt, handled, testers, requests,
                   messages, cache, pendingAdds, memberRoles, groupMembers,
                   tester_locks, lockHolder, now>>

\* variant: the handler goes on without having written the request
ApprovalUpdateRequest_NoWrite(p) ==
    /\ pc[p] = "ap_write"
    /\ IF failAt[p] = "update_request"
       THEN Raise(p, "ReactionRoleError")
       ELSE Goto(p, "ap_mark") /\ UNCHANGED exc
    /\ UNCHANGED <<payload, failAt, loc, handled, eff, testers, requests,
                   messages, cache, pendingAdds, memberRoles, groupMembers,
                   tester_locks, lockHolder, now>>

\* update_request; an AirTableError becomes a ReactionRoleError
ApprovalUpdateRequest(p) ==
    /\ pc[p] = "ap_write"
    /\ IF failAt[p] = "update_request"
       THEN /\ RaiseReactionRoleError(p)
            /\ UNCHANGED <<requests, eff>>
       ELSE /\ update_request(loc[p].request)
            /\ Emit(p, << <<"approval", "update_request", loc[p].request.id>> >>)
            /\ Goto(p, "ap_mark")
            /\ UNCHANGED <<exc, loc>>
    /\ UNCHANGED <<payload, failAt, handled, testers, messages, cache,
                   pendingAdds, memberRoles, groupMembers, tester_locks,
                   lockHolder, now>>

ApprovalMarkMessage(p) ==
    /\ pc[p] = "ap_mark"
    /\ add_reaction(payload[p].msg, "success")
    /\ Emit(p, << <<"approval", "add_reaction", "success">> >>)
    /\ Goto(p, "ap_others")
    /\ UNCHANGED <<payload, failAt, loc, handled, exc, testers, requests,
                   cache, pendingAdds, memberRoles, groupMembers,
                   tester_locks, lockHolder, now>>

\* get_other_request_messages; a failing fetch() makes its TaskGroup raise
\* an ExceptionGroup, which `except discord.DiscordException` lets through
ApprovalGetOthers(p) ==
    /\ pc[p] = "ap_others"
    /\ LET os == get_other_request_messages(payload[p].msg, loc[p].request) IN
       IF failAt[p] = "fan_out_fetch" /\ \E o \in os : ~o.cached
       THEN /\ Raise(p, "ExceptionGroup")
            /\ Emit(p, << <<"approval", "fetch_failed", payload[p].msg>> >>)
            /\ UNCHANGED loc
       ELSE /\ loc' = [loc EXCEPT ![p].others = os]
            /\ Goto(p, IF os = {} THEN "rj_check" ELSE "ap_fanout")
            /\ UNCHANGED <<exc, eff>>
    /\ UNCHANGED <<payload, failAt, handled, testers, requests,
                   messages, cache, pendingAdds, memberRoles, groupMembers,
                   tester_locks, lockHolder, now>>

\* both mark_request_message_approved tasks run; each returns the gather
\* future without awaiting it, so the add_reaction tasks are only created
ApprovalFanOut(p) ==
    /\ pc[p] = "ap_fanout"
    /\ pendingAdds' = pendingAdds \cup FanOutTasks(p, "ack", "success")
    /\ Goto(p, "rj_check")
    /\ UNCHANGED <<payload, failAt, loc, handled, exc, eff, testers, requests,
                   messages, cache, memberRoles, groupMembers, tester_locks,
                   lockHolder, now>>

\* an add_reaction task created by gather() runs on the event loop
\* a failure of the call stays in the future nobody awaits
RunPendingAdd(t) ==
    /\ t \in pendingAdds
    /\ pendingAdds' = pendingAdds \ {t}
    /\ IF failAt[t[1]] = "fan_out_add_reaction"
       THEN /\ Emit(t[1], << <<IF t[3] = "ack" THEN "approval" ELSE "rejection",
                                "mark_failed", t[2]>> >>)
            /\ UNCHANGED messages
       ELSE /\ add_reaction(t[2], t[3])
            /\ UNCHANGED eff
    /\ UNCHANGED <<pc, payload, failAt, loc, handled, exc, testers,
                   requests, cache, memberRoles, groupMembers, tester_locks,
                   lockHolder, now>>

\* ------------------------------------------------ handle_role_rejection
RejectionCheckChannel(p) ==
    /\ pc[p] = "rj_check"
    /\ IF check_valid_role_reaction_channel(p) /\ payload[p].emoji = "reject"
       THEN Goto(p, "rj_fetch")
       ELSE Goto(p, "rm_check")
    /\ UNCHANGED <<payload, failAt, loc, handled, exc, eff, testers, requests,
                   messages, cache, pendingAdds, memberRoles, groupMembers,
                   tester_locks, lockHolder, now>>

RejectionFetchRequest(p) ==
    /\ pc[p] = "rj_fetch"
    /\ LET r == fetch_request(payload[p].msg) IN
       IF r = NoRequest
       THEN /\ Emit(p, << <<"rejection", "reply", "no_request">> >>)
            /\ Goto(p, "rm_check")
            /\ UNCHANGED <<loc, handled>>
       ELSE IF r.status = "APPROVED"
       THEN /\ Emit(p, << <<"rejection", "reply", "previously_approved">> >>)
            /\ loc' = [loc EXCEPT ![p].request = r, ![p].fetched = r.status]
            /\ handled' = [handled EXCEPT ![p] = TRUE]
            /\ Goto(p, "finally")
       ELSE /\ loc' = [loc EXCEPT ![p].fetched = r.status,
                      ![p].request = [r EXCEPT !.status = "REJECTED"]]
            /\ Goto(p, "rj_write")
            /\ UNCHANGED <<eff, handled>>
    /\ UNCHANGED <<payload, failAt, exc, testers, requests, messages, cache,
                   pendingAdds, memberRoles, groupMembers, tester_locks,
                   lockHolder, now>>

\* variant: the rejection is not written to the store
RejectionUpdateRequest_NoWrite(p) ==
    /\ pc[p] = "rj_write"
    /\ IF failAt[p] = "update_request"
       THEN /\ Raise(p, "ReactionRoleError")
            /\ UNCHANGED eff
       ELSE /\ Emit(p, << <<"rejection", "update_request", loc[p].request.id>> >>)
            /\ Goto(p, "rj_mark")
            /\ UNCHANGED exc
    /\ UNCHANGED <<payload, failAt, loc, handled, testers, requests, messages,
                   cache, pendingAdds, memberRoles, groupMembers,
                   tester_locks, lockHolder, now>>

\* update_request; an AirTableError becomes a ReactionRoleError
RejectionUpdateRequest(p) ==
    /\ pc[p] = "rj_write"
    /\ IF failAt[p] = "update_request"
       THEN /\ RaiseReactionRoleError(p)
            /\ UNCHANGED <<requests, eff>>
       ELSE /\ update_request(loc[p].request)
            /\ Emit(p, << <<"rejection", "update_request", loc[p].request.id>> >>)
            /\ Goto(p, "rj_mark")
            /\ UNCHANGED <<exc, loc>>
    /\ UNCHANGED <<payload, failAt, handled, testers, messages, cache,
                   pendingAdds, memberRoles, groupMembers, tester_locks,
                   lockHolder, now>>

RejectionMarkMessage(p) ==
    /\ pc[p] = "rj_mark"
    /\ add_reaction(payload[p].msg, "rejected")
    /\ Emit(p, << <<"rejection", "add_reaction", "rejected">> >>)
    /\ Goto(p, "rj_others")
    /\ UNCHANGED <<payload, failAt, loc, handled, exc, testers, requests,
                   cache, pendingAdds, memberRoles, groupMembers,
                   tester_locks, lockHolder, now>>

RejectionGetOthers(p) ==
    /\ pc[p] = "rj_others"
    /\ LET os == get_other_request_messages(payload[p].msg, loc[p].request) IN
       IF failAt[p] = "fan_out_fetch" /\ \E o \in os : ~o.cached
       THEN /\ Raise(p, "ExceptionGroup")
            /\ Emit(p, << <<"rejection", "fetch_failed", payload[p].msg>> >>)
            /\ UNCHANGED <<loc, handled>>
       ELSE /\ loc' = [loc EXCEPT ![p].others = os]
            /\ IF os = {}
               THEN /\ handled' = [handled EXCEPT ![p] = TRUE]
                    /\ Goto(p, "finally")
               ELSE /\ Goto(p, "rj_fanout")
                    /\ UNCHANGED handled
            /\ UNCHANGED <<exc, eff>>
    /\ UNCHANGED <<payload, failAt, testers, requests, messages,
                   cache, pendingAdds, memberRoles, groupMembers,
                   tester_locks, lockHolder, now>>

RejectionFanOut(p) ==
    /\ pc[p] = "rj_fanout"
    /\ pendingAdds' = pendingAdds \cup FanOutTasks(p, "rejack", "rejected")
    /\ handled' = [handled EXCEPT ![p] = TRUE]
    /\ Goto(p, "finally")
    /\ UNCHANGED <<payload, failAt, loc, exc, eff, testers, requests,
                   messages, cache, memberRoles, groupMembers, tester_locks,
                   lockHolder, now>>

\* ---------------------------------------------- handle_removal_reaction
\* reached only while `handled` is still False
RemovalCheckChannel(p) ==
    /\ pc[p] = "rm_check"
    /\ IF check_valid_role_reaction_channel(p)
       THEN Goto(p, "rm_processing")
       ELSE Goto(p, "finally")
    /\ UNCHANGED <<payload, failAt, loc, handled, exc, eff, testers, requests,
                   messages, cache, pendingAdds, memberRoles, groupMembers,
                   tester_locks, lockHolder, now>>

\* the processing marker is added before the emoji is looked at
RemovalAddProcessing(p) ==
    /\ pc[p] = "rm_processing"
    /\ IF failAt[p] = "add_processing"
       THEN /\ Raise(p, "DiscordException")
            /\ UNCHANGED <<messages, eff>>
       ELSE /\ add_reaction(payload[p].msg, processing_emoji)
            /\ Emit(p, << <<"removal", "add_reaction", processing_emoji>> >>)
            /\ Goto(p, IF payload[p].emoji = "remove"
                       THEN "rm_find" ELSE "finally")
            /\ UNCHANGED exc
    /\ UNCHANGED <<payload, failAt, loc, handled, testers, requests, cache,
                   pendingAdds, memberRoles, groupMembers, tester_locks,
                   lockHolder, now>>

RemovalFindTester(p) ==
    /\ pc[p] = "rm_find"
    /\ LET t == find_tester_by_leave_message(payload[p].msg) IN
       IF failAt[p] = "find_tester_by_leave_message"
       THEN /\ Raise(p, "AirTableError")
            /\ UNCHANGED <<loc, eff>>
       ELSE IF t = NoTester /\ failAt[p] = "send_report"
       THEN /\ Raise(p, "DiscordException")
            /\ UNCHANGED <<loc, eff>>
       ELSE IF t = NoTester
       THEN /\ Emit(p, << <<"removal", "reply", "no_tester">> >>)
            /\ Goto(p, "finally")
            /\ UNCHANGED <<loc, exc>>
       ELSE /\ loc' = [loc EXCEPT ![p].tester = t]
            /\ Goto(p, "rm_remove")   \* remove_tester_from_app_store
            /\ UNCHANGED <<eff, exc>>
    /\ UNCHANGED <<payload, failAt, handled, testers, requests, messages,
                   cache, pendingAdds, memberRoles, groupMembers,
                   tester_locks, lockHolder, now>>

\* list_requests(tester_id, app_ids, approval_filter=APPROVED,
\* exclude_removed=True), oldest first
RECURSIVE ListApprovedFrom(_, _, _)
ListApprovedFrom(i, u, apps) ==
    IF i > Len(requests) THEN << >>
    ELSE IF /\ requests[i].tester_discord_id = u
            /\ requests[i].app \in apps
            /\ requests[i].status = "APPROVED"
            /\ ~requests[i].removed
         THEN <<requests[i]>> \o ListApprovedFrom(i + 1, u, apps)
         ELSE ListApprovedFrom(i + 1, u, apps)

\* update_requests(records): every record is written back under its id
update_requests(records) ==
    requests' = [i \in 1..Len(requests) |->
                   IF \E k \in 1..Len(records) : records[k].id = i
                   THEN records[CHOOSE k \in 1..Len(records) :
                                   records[k].id = i]
                   ELSE requests[i]]

\* apps in whose distribution group the tester is
GroupApps(u) == {a \in KnownApps : <<u, a>> \in groupMembers}

\* remove_tester_from_app_store, apps=None: find_beta_tester(email, None);
\* with no tester found one reply is posted and the function returns
RemovalFindBetaTester(p) ==
    /\ pc[p] = "rm_remove"
    /\ LET u == loc[p].tester.discord_id IN
       IF GroupApps(u) = {}
       THEN /\ Emit(p, << <<"removal", "dist_find", u>>,
                          <<"removal", "reply", "no_testers">> >>)
            /\ Goto(p, "rm_door")
            /\ UNCHANGED loc
       ELSE /\ Emit(p, << <<"removal", "dist_find", u>> >>)
            /\ loc' = [loc EXCEPT ![p].removed_app_ids = GroupApps(u)]
            /\ Goto(p, "rm_delete")
    /\ UNCHANGED <<payload, failAt, handled, exc, testers, requests, messages,
                   cache, pendingAdds, memberRoles, groupMembers,
                   tester_locks, lockHolder, now>>

\* delete_beta_tester for every app found; their ids are removed_app_ids
RemovalDeleteBetaTester(p) ==
    /\ pc[p] = "rm_delete"
    /\ LET u == loc[p].tester.discord_id IN
       /\ groupMembers' = groupMembers
                             \ {<<u, a>> : a \in loc[p].removed_app_ids}
       /\ Emit(p, << <<"removal", "dist_delete", u>> >>)
    /\ Goto(p, "rm_list")
    /\ UNCHANGED <<payload, failAt, loc, handled, exc, testers, requests,
                   messages, cache, pendingAdds, memberRoles, tester_locks,
                   lockHolder, now>>

\* variant: the listing is not restricted to APPROVED requests
RemovalListRequests_AnyStatus(p) ==
    /\ pc[p] = "rm_list"
    /\ loc' = [loc EXCEPT ![p].existing =
                 SelectSeq(requests, LAMBDA r :
                     /\ r.tester_discord_id = loc[p].tester.discord_id
                     /\ r.app \in loc[p].removed_app_ids)]
    /\ Goto(p, "rm_update")
    /\ UNCHANGED <<payload, failAt, handled, exc, eff, testers, requests,
                   messages, cache, pendingAdds, memberRoles, groupMembers,
                   tester_locks, lockHolder, now>>

\* records_to_update
RemovalListRequests(p) ==
    /\ pc[p] = "rm_list"
    /\ loc' = [loc EXCEPT ![p].existing =
                 ListApprovedFrom(1, loc[p].tester.discord_id,
                                  loc[p].removed_app_ids)]
    /\ Goto(p, "rm_update")
    /\ UNCHANGED <<payload, failAt, handled, exc, eff, testers, requests,
                   messages, cache, pendingAdds, memberRoles, groupMembers,
                   tester_locks, lockHolder, now>>

\* r.removed = True for every listed record, then one update_requests
RemovalUpdateRequests(p) ==
    /\ pc[p] = "rm_update"
    /\ LET records == [k \in 1..Len(loc[p].existing) |->
                         [loc[p].existing[k] EXCEPT !.removed = TRUE]] IN
       /\ update_requests(records)
       /\ Emit(p, << <<"removal", "update_requests", Len(records)>> >>)
    /\ Goto(p, "rm_door")
    /\ UNCHANGED <<payload, failAt, loc, handled, exc, testers, messages,
                   cache, pendingAdds, memberRoles, groupMembers,
                   tester_locks, lockHolder, now>>

\* the door marker is added and handle_removal_reaction returns True
RemovalMarkDone(p) ==
    /\ pc[p] = "rm_door"
    /\ add_reaction(payload[p].msg, "door")
    /\ Emit(p, << <<"removal", "add_reaction", "door">> >>)
    /\ handled' = [handled EXCEPT ![p] = TRUE]
    /\ Goto(p, "finally")
    /\ UNCHANGED <<payload, failAt, loc, exc, testers, requests, cache,
                   pendingAdds, memberRoles, groupMembers, tester_locks,
                   lockHolder, now>>

\* ------------------------------------- handle_reaction: except, finally
\* variant: the report always goes to the reaction's channel
ReportAirTableError_OwnChannel(p) ==
    /\ pc[p] = "ex_airtable"
    /\ Emit(p, << <<"reporter", "reply", "airtable_error",
                    payload[p].channel, payload[p].user>> >>)
    /\ exc' = [exc EXCEPT ![p] = "none"]
    /\ Goto(p, "finally")
    /\ UNCHANGED <<payload, failAt, loc, handled, testers, requests, messages,
                   cache, pendingAdds, memberRoles, groupMembers,
                   tester_locks, lockHolder, now>>

\* except AirTableError: one message mentioning payload.member, sent to the
\* reaction's channel if that is an approval channel, else to the default
\* approvals channel
ReportAirTableError(p) ==
    /\ pc[p] = "ex_airtable"
    /\ Emit(p, << <<"reporter", "reply", "airtable_error",
                    IF is_approval_channel(payload[p].channel)
                    THEN payload[p].channel ELSE DefaultApprovalChannel,
                    payload[p].user>> >>)
    /\ exc' = [exc EXCEPT ![p] = "none"]
    /\ Goto(p, "finally")
    /\ UNCHANGED <<payload, failAt, loc, handled, testers, requests, messages,
                   cache, pendingAdds, memberRoles, groupMembers,
                   tester_locks, lockHolder, now>>

\* variant: the report is posted but `handled` is left as it was
ReportReactionRoleError_NotHandled(p) ==
    /\ pc[p] = "ex_rre"
    /\ Emit(p, << <<"reporter", "reply", "reaction_role_error",
                    loc[p].err.ref, loc[p].err.member>> >>)
    /\ exc' = [exc EXCEPT ![p] = "none"]
    /\ Goto(p, "finally")
    /\ UNCHANGED <<payload, failAt, loc, handled, testers, requests, messages,
                   cache, pendingAdds, memberRoles, groupMembers,
                   tester_locks, lockHolder, now>>

\* except ReactionRoleError: e.message is sent to the reaction's channel as
\* a reply to e.discord_message_reference, prefixed with the mention of
\* e.mention_member when there is one ("" stands for None); handled = True
ReportReactionRoleError(p) ==
    /\ pc[p] = "ex_rre"
    /\ Emit(p, << <<"reporter", "reply", "reaction_role_error",
                    loc[p].err.ref,
                    IF loc[p].err.member # "" THEN loc[p].err.member
                    ELSE "">> >>)
    /\ exc' = [exc EXCEPT ![p] = "none"]
    /\ handled' = [handled EXCEPT ![p] = TRUE]
    /\ Goto(p, "finally")
    /\ UNCHANGED <<payload, failAt, loc, testers, requests, messages, cache,
                   pendingAdds, memberRoles, groupMembers, tester_locks,
                   lockHolder, now>>

\* variant: the marker is removed after the try statement, not in finally
FinallyRemoveProcessing_NotOnRaise(p) ==
    /\ pc[p] = "finally"
    /\ messages' = [messages EXCEPT ![payload[p].msg].reactions =
                                        IF exc[p] = "none"
                                        THEN @ \ {processing_emoji} ELSE @]
    /\ Emit(p, << <<"reporter", "remove_reaction", processing_emoji>> >>)
    /\ Goto(p, IF exc[p] = "none" THEN "returned" ELSE "raised")
    /\ UNCHANGED <<payload, failAt, loc, handled, exc, testers, requests,
                   cache, pendingAdds, memberRoles, groupMembers,
                   tester_locks, lockHolder, now>>

\* finally: the processing marker is taken off, then the task returns
\* `handled` or lets the exception in flight propagate
FinallyRemoveProcessing(p) ==
    /\ pc[p] = "finally"
    /\ messages' = [messages EXCEPT ![payload[p].msg].reactions =
                                        @ \ {processing_emoji}]
    /\ Emit(p, << <<"reporter", "remove_reaction", processing_emoji>> >>)
    /\ Goto(p, IF exc[p] = "none" THEN "returned" ELSE "raised")
    /\ UNCHANGED <<payload, failAt, loc, handled, exc, testers, requests,
                   cache, pendingAdds, memberRoles, groupMembers,
                   tester_locks, lockHolder, now>>

\* ------------------------------------------------- handle_role_reaction
WatchedMessageIds ==
    {m \in 1..Len(messages) : messages[m].channel = WatchChannel}

\* get_reaction_role(guild, message, emoji): the app ids of the mapping
get_reaction_role(emoji) ==
    CASE emoji = "appA" -> <<"A">>
      [] emoji = "appB" -> <<"B">>
      [] emoji = "appAB" -> <<"A", "B">>
      [] emoji = "rulesA" -> <<"A">>
      [] emoji = "closedAC" -> <<"A", "C">>
      [] OTHER -> << >>

\* the emojis that have a ReactionRole; "plain" and "plainRules" map to a
\* role without an app
MappedEmojis ==
    {"appA", "appB", "appAB", "rulesA", "closedAC", "plain", "plainRules"}
\* reaction_role.requires_rules_approval
requires_rules_approval(emoji) ==
    emoji \in {"rulesA", "closedAC", "plainRules"}
\* app.beta_open
beta_open(app) == app # "C"
RuleAgreementRole == "rules_agreed"
\* reaction_role.role_id of the mappings without an app
PlainRole == "rolePlain"

\* find_tester(discord_id)
find_tester(u) ==
    IF \E i \in 1..Len(testers) : testers[i].discord_id = u
    THEN testers[Min({i \in 1..Len(testers) : testers[i].discord_id = u})]
    ELSE NoTester

\* upsert_tester(tester): a record without an id is created, one with an id
\* is written back; the stored record is returned
upserted(t) == IF t.id = 0 THEN [t EXCEPT !.id = Len(testers) + 1] ELSE t

upsert_tester(t) ==
    testers' = IF t.id = 0 THEN Append(testers, upserted(t))
               ELSE [testers EXCEPT ![t.id] = t]

RECURSIVE ListFrom(_, _, _)
ListFrom(i, u, apps) ==
    IF i > Len(requests) THEN << >>
    ELSE IF /\ requests[i].tester_discord_id = u
            /\ requests[i].app \in apps
            /\ ~requests[i].removed
         THEN <<requests[i]>> \o ListFrom(i + 1, u, apps)
         ELSE ListFrom(i + 1, u, apps)

\* list_requests(tester_id, app_ids, exclude_removed=True), oldest first
list_requests(u, app_ids) == ListFrom(1, u, Range(app_ids))

\* add_request(TestingRequest(tester, tester_discord_id, app, server_id))
added_request(t, app) ==
    [NoRequest EXCEPT !.id = Len(requests) + 1, !.tester = t.id,
                      !.tester_discord_id = t.discord_id, !.app = app]

\* variant: the table is a plain dict, so entries stay
ReleaseLock_KeepsEntry(p) ==
    /\ lockHolder' = [lockHolder EXCEPT ![loc[p].lock] = ""]
    /\ UNCHANGED tester_locks

\* leaving `async with`: the lock is released and the task's reference to
\* it dropped; the weak table loses the entry with the last reference
ReleaseLock(p) ==
    LET l == loc[p].lock
        u == payload[p].user IN
    /\ lockHolder' = [lockHolder EXCEPT ![l] = ""]
    /\ tester_locks' =
         IF \E q \in Procs \ {p} : loc[q].lock = l
         THEN tester_locks
         ELSE [tester_locks EXCEPT ![u] = IF @ = l THEN "" ELSE @]

\* variant: the rules prerequisite is not looked at
RoleCheckWatched_NoRulesGate(p) ==
    /\ pc[p] = "rr_watched"
    /\ LET emoji == payload[p].emoji
           app_ids == get_reaction_role(emoji) IN
       IF /\ payload[p].msg \in WatchedMessageIds
          /\ emoji \in MappedEmojis
       THEN /\ loc' = [loc EXCEPT ![p].app_ids = app_ids]
            /\ Goto(p,
                 IF \E a \in Range(app_ids) : ~beta_open(a)
                 THEN "rr_closed"
                 ELSE IF app_ids = << >>
                 THEN IF failAt[p] = "get_role" \/ PlainRole \in loc[p].roles
                      THEN "ap_check" ELSE "rr_grant"
                 ELSE "rr_lock")
       ELSE /\ Goto(p, "ap_check")
            /\ UNCHANGED loc
    /\ UNCHANGED <<payload, failAt, handled, exc, eff, testers, requests,
                   messages, cache, pendingAdds, memberRoles, groupMembers,
                   tester_locks, lockHolder, now>>

\* variant: closed betas are not looked at
RoleCheckWatched_NoBetaGate(p) ==
    /\ pc[p] = "rr_watched"
    /\ LET emoji == payload[p].emoji
           app_ids == get_reaction_role(emoji) IN
       IF /\ payload[p].msg \in WatchedMessageIds
          /\ emoji \in MappedEmojis
       THEN /\ loc' = [loc EXCEPT ![p].app_ids = app_ids]
            /\ Goto(p,
                 IF /\ requires_rules_approval(emoji)
                    /\ RuleAgreementRole \notin loc[p].roles
                 THEN "rr_rules"
                 ELSE IF app_ids = << >>
                 THEN IF failAt[p] = "get_role" \/ PlainRole \in loc[p].roles
                      THEN "ap_check" ELSE "rr_grant"
                 ELSE "rr_lock")
       ELSE /\ Goto(p, "ap_check")
            /\ UNCHANGED loc
    /\ UNCHANGED <<payload, failAt, handled, exc, eff, testers, requests,
                   messages, cache, pendingAdds, memberRoles, groupMembers,
                   tester_locks, lockHolder, now>>

\* the watched-message and mapping checks, then the prerequisites in the
\* order of the code: rules acceptance, open betas, a role without an app
\* (guild.get_role may find no role), else the guarded workflow; the roles
\* looked at are those of payload.member
RoleCheckWatched(p) ==
    /\ pc[p] = "rr_watched"
    /\ LET emoji == payload[p].emoji
           app_ids == get_reaction_role(emoji) IN
       IF /\ payload[p].msg \in WatchedMessageIds
          /\ emoji \in MappedEmojis
       THEN /\ loc' = [loc EXCEPT ![p].app_ids = app_ids]
            /\ Goto(p,
                 IF /\ requires_rules_approval(emoji)
                    /\ RuleAgreementRole \notin loc[p].roles
                 THEN "rr_rules"
                 ELSE IF \E a \in Range(app_ids) : ~beta_open(a)
                 THEN "rr_closed"
                 ELSE IF app_ids = << >>
                 THEN IF failAt[p] = "get_role" \/ PlainRole \in loc[p].roles
                      THEN "ap_check" ELSE "rr_grant"
                 ELSE "rr_lock")
       ELSE /\ Goto(p, "ap_check")
            /\ UNCHANGED loc
    /\ UNCHANGED <<payload, failAt, handled, exc, eff, testers, requests,
                   messages, cache, pendingAdds, memberRoles, groupMembers,
                   tester_locks, lockHolder, now>>

\* the private explanation about the rules; when the configured rules
\* channel is not found in the guild the handler returns without sending
RoleSendRulesNotice(p) ==
    /\ pc[p] = "rr_rules"
    /\ IF failAt[p] = "rules_channel"
       THEN UNCHANGED eff
       ELSE Emit(p, << <<"role", "dm_rules", payload[p].user>> >>)
    /\ Goto(p, "ap_check")
    /\ UNCHANGED <<payload, failAt, loc, handled, exc, testers, requests,
                   messages, cache, pendingAdds, memberRoles, groupMembers,
                   tester_locks, lockHolder, now>>

\* the private notice naming the betas that are not open
RoleSendClosedNotice(p) ==
    /\ pc[p] = "rr_closed"
    /\ Emit(p, << <<"role", "dm_closed", payload[p].user>> >>)
    /\ Goto(p, "ap_check")
    /\ UNCHANGED <<payload, failAt, loc, handled, exc, testers, requests,
                   messages, cache, pendingAdds, memberRoles, groupMembers,
                   tester_locks, lockHolder, now>>

\* payload.member.add_roles(role) for a mapping without an app
RoleGrantRole(p) ==
    /\ pc[p] = "rr_grant"
    /\ memberRoles' = [memberRoles EXCEPT ![payload[p].user] =
                                              @ \cup {PlainRole}]
    /\ Emit(p, << <<"role", "add_roles", payload[p].user>> >>)
    /\ Goto(p, "ap_check")
    /\ UNCHANGED <<payload, failAt, loc, handled, exc, testers, requests,
                   messages, cache, pendingAdds, groupMembers, tester_locks,
                   lockHolder, now>>

\* variant: every task stores a new Lock under the key instead of setdefault
RoleLockEnter_FreshLock(p) ==
    /\ pc[p] = "rr_lock"
    /\ LET u == payload[p].user
           l == p IN
       /\ tester_locks' = [tester_locks EXCEPT ![u] = l]
       /\ loc' = [loc EXCEPT ![p].lock = l]
       /\ IF lockHolder[l] = ""
          THEN /\ lockHolder' = [lockHolder EXCEPT ![l] = p]
               /\ Goto(p, "rr_find")
          ELSE /\ Goto(p, "rr_lockwait")
               /\ UNCHANGED lockHolder
    /\ UNCHANGED <<payload, failAt, handled, exc, eff, testers, requests,
                   messages, cache, pendingAdds, memberRoles, groupMembers,
                   now>>

\* tester_locks.setdefault(user id, Lock()), then acquire or start waiting
RoleLockEnter(p) ==
    /\ pc[p] = "rr_lock"
    /\ LET u == payload[p].user
           l == IF tester_locks[u] # "" THEN tester_locks[u] ELSE p IN
       /\ tester_locks' = [tester_locks EXCEPT ![u] = l]
       /\ loc' = [loc EXCEPT ![p].lock = l]
       /\ IF lockHolder[l] = ""
          THEN /\ lockHolder' = [lockHolder EXCEPT ![l] = p]
               /\ Goto(p, "rr_find")
          ELSE /\ Goto(p, "rr_lockwait")
               /\ UNCHANGED lockHolder
    /\ UNCHANGED <<payload, failAt, handled, exc, eff, testers, requests,
                   messages, cache, pendingAdds, memberRoles, groupMembers,
                   now>>

\* variant: a waiting task enters without the lock being free
RoleLockAcquire_NoWait(p) ==
    /\ pc[p] = "rr_lockwait"
    /\ lockHolder' = [lockHolder EXCEPT ![loc[p].lock] = p]
    /\ Goto(p, "rr_find")
    /\ UNCHANGED <<payload, failAt, loc, handled, exc, eff, testers, requests,
                   messages, cache, pendingAdds, memberRoles, groupMembers,
                   tester_locks, now>>

\* the waiting task is resumed once the lock is free
RoleLockAcquire(p) ==
    /\ pc[p] = "rr_lockwait"
    /\ lockHolder[loc[p].lock] = ""
    /\ lockHolder' = [lockHolder EXCEPT ![loc[p].lock] = p]
    /\ Goto(p, "rr_find")
    /\ UNCHANGED <<payload, failAt, loc, handled, exc, eff, testers, requests,
                   messages, cache, pendingAdds, memberRoles, groupMembers,
                   tester_locks, now>>

\* variant: a new Tester is built whether or not one was found
RoleFindTester_AlwaysNew(p) ==
    /\ pc[p] = "rr_find"
    /\ LET u == payload[p].user IN
       loc' = [loc EXCEPT ![p].tester =
                 [NoTester EXCEPT !.username = u, !.discord_id = u]]
    /\ Goto(p, "rr_upsert")
    /\ UNCHANGED <<payload, failAt, handled, exc, eff, testers, requests,
                   messages, cache, pendingAdds, memberRoles, groupMembers,
                   tester_locks, lockHolder, now>>

\* find_tester, then build or refresh the local Tester
\* an AirTableError of find_tester leaves `async with`, releasing the lock
RoleFindTester(p) ==
    /\ pc[p] = "rr_find"
    /\ LET u == payload[p].user
           t == find_tester(u) IN
       IF failAt[p] = "find_tester"
       THEN /\ Raise(p, "AirTableError")
            /\ ReleaseLock(p)
            /\ loc' = [loc EXCEPT ![p].lock = ""]
       ELSE /\ loc' = [loc EXCEPT ![p].tester =
                         IF t = NoTester
                         THEN [NoTester EXCEPT !.username = u, !.discord_id = u]
                         ELSE [t EXCEPT !.username = u, !.discord_id = u]]
            /\ Goto(p, "rr_upsert")
            /\ UNCHANGED <<exc, tester_locks, lockHolder>>
    /\ UNCHANGED <<payload, failAt, handled, eff, testers, requests,
                   messages, cache, pendingAdds, memberRoles, groupMembers,
                   now>>

\* variant: the record is written without its record id
RoleUpsertTester_WithoutId(p) ==
    /\ pc[p] = "rr_upsert"
    /\ LET t == [loc[p].tester EXCEPT !.id = 0] IN
       /\ upsert_tester(t)
       /\ loc' = [loc EXCEPT ![p].tester = upserted(t)]
    /\ Emit(p, << <<"role", "upsert_tester", loc[p].tester.discord_id>> >>)
    /\ Goto(p, "rr_list")
    /\ UNCHANGED <<payload, failAt, handled, exc, requests, messages, cache,
                   pendingAdds, memberRoles, groupMembers, tester_locks,
                   lockHolder, now>>

\* upsert_tester(tester); the stored record replaces the local one
RoleUpsertTester(p) ==
    /\ pc[p] = "rr_upsert"
    /\ upsert_tester(loc[p].tester)
    /\ loc' = [loc EXCEPT ![p].tester = upserted(loc[p].tester)]
    /\ Emit(p, << <<"role", "upsert_tester", loc[p].tester.discord_id>> >>)
    /\ Goto(p, "rr_list")
    /\ UNCHANGED <<payload, failAt, handled, exc, requests, messages, cache,
                   pendingAdds, memberRoles, groupMembers, tester_locks,
                   lockHolder, now>>

\* variant: a REJECTED request among the listed ones does not end the handler
RoleListRequests_NoRejectedGuard(p) ==
    /\ pc[p] = "rr_list"
    /\ LET existing == list_requests(loc[p].tester.discord_id, loc[p].app_ids)
           t == loc[p].tester IN
       IF Len(existing) = 0
       THEN /\ Goto(p, "rr_add")
            /\ loc' = [loc EXCEPT ![p].existing = existing]
            /\ UNCHANGED <<tester_locks, lockHolder>>
       ELSE IF ~t.email
       THEN /\ Goto(p, IF PyBool(t.reg) THEN "rr_fetchreg" ELSE "rr_sendreg")
            /\ loc' = [loc EXCEPT ![p].existing = existing]
            /\ UNCHANGED <<tester_locks, lockHolder>>
       ELSE /\ Goto(p, "rr_notify")
            /\ ReleaseLock(p)
            /\ loc' = [loc EXCEPT ![p].existing = existing, ![p].lock = "",
                                  ![p].request = existing[1]]
    /\ UNCHANGED <<payload, failAt, handled, exc, eff, testers, requests,
                   messages, cache, pendingAdds, memberRoles, groupMembers,
                   now>>

\* variant: the newest existing request is reused
RoleListRequests_Newest(p) ==
    /\ pc[p] = "rr_list"
    /\ LET existing == list_requests(loc[p].tester.discord_id, loc[p].app_ids)
           t == loc[p].tester IN
       IF Len(existing) = 0
       THEN /\ Goto(p, "rr_add")
            /\ loc' = [loc EXCEPT ![p].existing = existing]
            /\ UNCHANGED <<tester_locks, lockHolder>>
       ELSE IF \E i \in 1..Len(existing) : existing[i].status = "REJECTED"
       THEN /\ Goto(p, "ap_check")
            /\ ReleaseLock(p)
            /\ loc' = [loc EXCEPT ![p].existing = existing, ![p].lock = ""]
       ELSE IF ~t.email
       THEN /\ Goto(p, IF PyBool(t.reg) THEN "rr_fetchreg" ELSE "rr_sendreg")
            /\ loc' = [loc EXCEPT ![p].existing = existing]
            /\ UNCHANGED <<tester_locks, lockHolder>>
       ELSE /\ Goto(p, "rr_notify")
            /\ ReleaseLock(p)
            /\ loc' = [loc EXCEPT ![p].existing = existing, ![p].lock = "",
                                  ![p].request = existing[Len(existing)]]
    /\ UNCHANGED <<payload, failAt, handled, exc, eff, testers, requests,
                   messages, cache, pendingAdds, memberRoles, groupMembers,
                   now>>

RoleListRequests(p) ==
    /\ pc[p] = "rr_list"
    /\ LET existing == list_requests(loc[p].tester.discord_id, loc[p].app_ids)
           t == loc[p].tester IN
       IF Len(existing) = 0
       THEN /\ Goto(p, "rr_add")
            /\ loc' = [loc EXCEPT ![p].existing = existing]
            /\ UNCHANGED <<tester_locks, lockHolder>>
       ELSE IF \E i \in 1..Len(existing) : existing[i].status = "REJECTED"
       THEN /\ Goto(p, "ap_check")
            /\ ReleaseLock(p)
            /\ loc' = [loc EXCEPT ![p].existing = existing, ![p].lock = ""]
       ELSE IF ~t.email
       THEN /\ Goto(p, IF PyBool(t.reg) THEN "rr_fetchreg" ELSE "rr_sendreg")
            /\ loc' = [loc EXCEPT ![p].existing = existing]
            /\ UNCHANGED <<tester_locks, lockHolder>>
       ELSE /\ Goto(p, "rr_notify")
            /\ ReleaseLock(p)
            /\ loc' = [loc EXCEPT ![p].existing = existing, ![p].lock = "",
                                  ![p].request = existing[1]]
    /\ UNCHANGED <<payload, failAt, handled, exc, eff, testers, requests,
                   messages, cache, pendingAdds, memberRoles, groupMembers,
                   now>>

\* variant: the notification is sent from inside `async with`
RoleAddRequest_KeepLock(p) ==
    /\ pc[p] = "rr_add"
    /\ LET t == loc[p].tester
           r == added_request(t, loc[p].app_ids[1]) IN
       /\ requests' = Append(requests, r)
       /\ Emit(p, << <<"role", "add_request", r.id>> >>)
       /\ Goto(p, IF ~t.email
                  THEN IF PyBool(t.reg) THEN "rr_fetchreg" ELSE "rr_sendreg"
                  ELSE "rr_notify")
       /\ loc' = [loc EXCEPT ![p].request = r]
    /\ UNCHANGED <<payload, failAt, handled, exc, testers, messages, cache,
                   pendingAdds, memberRoles, groupMembers, tester_locks,
                   lockHolder, now>>

\* add_request for the first app of the role; with an email on file the
\* guarded section ends here
RoleAddRequest(p) ==
    /\ pc[p] = "rr_add"
    /\ LET t == loc[p].tester
           r == added_request(t, loc[p].app_ids[1]) IN
       /\ requests' = Append(requests, r)
       /\ Emit(p, << <<"role", "add_request", r.id>> >>)
       /\ IF ~t.email
          THEN /\ Goto(p, IF PyBool(t.reg) THEN "rr_fetchreg" ELSE "rr_sendreg")
               /\ loc' = [loc EXCEPT ![p].request = r]
               /\ UNCHANGED <<tester_locks, lockHolder>>
          ELSE /\ Goto(p, "rr_notify")
               /\ ReleaseLock(p)
               /\ loc' = [loc EXCEPT ![p].request = r, ![p].lock = ""]
    /\ UNCHANGED <<payload, failAt, handled, exc, testers, messages, cache,
                   pendingAdds, memberRoles, groupMembers, now>>

\* variant: the age of the previous prompt is compared the wrong way round
RoleFetchRegistration_NoCooldown(p) ==
    /\ pc[p] = "rr_fetchreg"
    /\ LET previous == messages[PyInt(loc[p].tester.reg)[2]] IN
       IF previous.created_at + CooldownMinutes < now
       THEN /\ Goto(p, "ap_check")
            /\ ReleaseLock(p)
            /\ loc' = [loc EXCEPT ![p].lock = ""]
       ELSE /\ Goto(p, "rr_sendreg")
            /\ UNCHANGED <<loc, tester_locks, lockHolder>>
    /\ UNCHANGED <<payload, failAt, handled, exc, eff, testers, requests,
                   messages, cache, pendingAdds, memberRoles, groupMembers,
                   now>>

\* the previous registration prompt is fetched; a recent one ends the handler
RoleFetchRegistration(p) ==
    /\ pc[p] = "rr_fetchreg"
    /\ LET previous == messages[PyInt(loc[p].tester.reg)[2]] IN
       IF previous.created_at + CooldownMinutes > now
       THEN /\ Goto(p, "ap_check")
            /\ ReleaseLock(p)
            /\ loc' = [loc EXCEPT ![p].lock = ""]
       ELSE /\ Goto(p, "rr_sendreg")
            /\ UNCHANGED <<loc, tester_locks, lockHolder>>
    /\ UNCHANGED <<payload, failAt, handled, exc, eff, testers, requests,
                   messages, cache, pendingAdds, memberRoles, groupMembers,
                   now>>

RoleSendRegistration(p) ==
    /\ pc[p] = "rr_sendreg"
    /\ messages' = Append(messages, [author |-> "self", channel |-> "dm",
                                     reactions |-> {}, created_at |-> now])
    /\ loc' = [loc EXCEPT ![p].tester.reg = PyStr(Len(messages) + 1)]
    /\ Emit(p, << <<"role", "dm_registration", now>> >>)
    /\ Goto(p, "rr_savereg")
    /\ UNCHANGED <<payload, failAt, handled, exc, testers, requests, cache,
                   pendingAdds, memberRoles, groupMembers, tester_locks,
                   lockHolder, now>>

\* variant: the handler goes on to the notification after the prompt
RoleSaveRegistration_NoReturn(p) ==
    /\ pc[p] = "rr_savereg"
    /\ upsert_tester(loc[p].tester)
    /\ Emit(p, << <<"role", "upsert_tester", loc[p].tester.discord_id>> >>)
    /\ ReleaseLock(p)
    /\ loc' = [loc EXCEPT ![p].lock = "",
                          ![p].request = IF Len(loc[p].existing) = 0
                                         THEN loc[p].request
                                         ELSE loc[p].existing[1]]
    /\ Goto(p, "rr_notify")
    /\ UNCHANGED <<payload, failAt, handled, exc, requests, messages, cache,
                   pendingAdds, memberRoles, groupMembers, now>>

\* the prompt's id is stored on the tester, and handle_role_reaction returns
RoleSaveRegistration(p) ==
    /\ pc[p] = "rr_savereg"
    /\ upsert_tester(loc[p].tester)
    /\ Emit(p, << <<"role", "upsert_tester", loc[p].tester.discord_id>> >>)
    /\ ReleaseLock(p)
    /\ loc' = [loc EXCEPT ![p].lock = ""]
    /\ Goto(p, "ap_check")
    /\ UNCHANGED <<payload, failAt, handled, exc, requests, messages, cache,
                   pendingAdds, memberRoles, groupMembers, now>>

\* send_request_notification_message: the message is sent and recorded on
\* the local copy of the request
RoleSendNotification(p) ==
    /\ pc[p] = "rr_notify"
    /\ LET r == loc[p].request
           id == Len(messages) + 1 IN
       /\ messages' = Append(messages,
                             [author |-> "self", channel |-> ApprovalChannel,
                              reactions |-> {}, created_at |-> now])
       /\ loc' = [loc EXCEPT ![p].request =
                    IF PyBool(r.notif)
                    THEN [r EXCEPT !.further = Append(@, PyStr(id))]
                    ELSE [r EXCEPT !.notif = PyStr(id)]]
       /\ Emit(p, << <<"role", "notification", id>> >>)
    /\ Goto(p, "rr_updreq")
    /\ UNCHANGED <<payload, failAt, handled, exc, testers, requests, cache,
                   pendingAdds, memberRoles, groupMembers, tester_locks,
                   lockHolder, now>>

RoleUpdateRequest(p) ==
    /\ pc[p] = "rr_updreq"
    /\ update_request(loc[p].request)
    /\ Emit(p, << <<"role", "update_request", loc[p].request.id>> >>)
    /\ Goto(p, "ap_check")
    /\ UNCHANGED <<payload, failAt, loc, handled, exc, testers, messages,
                   cache, pendingAdds, memberRoles, groupMembers,
                   tester_locks, lockHolder, now>>

\* wall clock
Tick ==
    /\ now + TickMinutes <= MaxTime
    /\ now' = now + TickMinutes
    /\ UNCHANGED <<pc, payload, failAt, loc, handled, exc, eff, testers,
                   requests, messages, cache, pendingAdds, memberRoles,
                   groupMembers, tester_locks, lockHolder>>

\* -------------------------------------------------------- specifications
NotificationMessage ==
    [author |-> "self", channel |-> ApprovalChannel, reactions |-> {},
     created_at |-> 0]
WatchedPost ==
    [author |-> "user", channel |-> WatchChannel, reactions |-> {},
     created_at |-> 0]
Registered(id, u) ==
    [NoTester EXCEPT !.id = id, !.discord_id = u, !.username = u,
                     !.email = TRUE]
\* a registered tester whose member name has changed since it was stored
Renamed(id, u) == [Registered(id, u) EXCEPT !.username = "before"]
Request(id, t, u, app, status, removed, notif, further) ==
    [id |-> id, tester |-> t, tester_discord_id |-> u, app |-> app,
     status |-> status, removed |-> removed, notif |-> notif,
     further |-> further]

InitTasks ==
    /\ pc = [p \in Procs |-> "idle"]
    /\ payload = [p \in Procs |-> NoPayload]
    /\ failAt = [p \in Procs |-> "none"]
    /\ loc = [p \in Procs |-> NoLocals]
    /\ handled = [p \in Procs |-> FALSE]
    /\ exc = [p \in Procs |-> "none"]
    /\ eff = [p \in Procs |-> << >>]
    /\ pendingAdds = {}
    /\ memberRoles = [u \in TesterUsers |-> {}]
    /\ groupMembers = {}
    /\ tester_locks = [u \in TesterUsers \cup {Moderator} |-> ""]
    /\ lockHolder = [l \in Procs |-> ""]
    /\ now = 0

\* moderators react on the notification copies of one PENDING request
InitMod ==
    /\ InitTasks
    /\ messages = <<NotificationMessage, NotificationMessage,
                    NotificationMessage>>
    /\ cache \in {{}, {2}, {1, 2, 3}}
    /\ testers = <<Registered(1, "u1")>>
    /\ \E further \in {<< >>, <<PyStr(2), PyStr(3)>>} :
         requests = <<Request(1, 1, "u1", "A", "PENDING", FALSE, PyStr(1),
                              further)>>

ModPayloads ==
    [user : {Moderator}, msg : {1, 2},
     emoji : {"approve", "reject", "remove", "other"},
     channel : {ApprovalChannel}]

\* the collaborator call that fails, for an event with this emoji
FailPoints(emoji) ==
    CASE emoji = "approve" -> {"none", "fetch_request", "update_request"}
      [] emoji = "reject" -> {"none", "update_request"}
      [] emoji = "remove" -> {"none", "add_processing",
                              "find_tester_by_leave_message", "send_report"}
      [] OTHER -> {"none", "add_processing"}

StartMod(p) ==
    \E pl \in ModPayloads : \E f \in FailPoints(pl.emoji) : Start(p, pl, f)

NextMod ==
    \/ \E p \in Procs :
        \/ StartMod(p)
        \/ RoleCheckWatched(p)
        \/ ApprovalCheckChannel(p)
        \/ ApprovalFetchRequest(p)
        \/ ApprovalFetchTesterApp(p)
        \/ ApprovalAddToGroup(p)
        \/ ApprovalGrantRoles(p)
        \/ ApprovalNotify(p)
        \/ ApprovalUpdateRequest(p)
        \/ ApprovalMarkMessage(p)
        \/ ApprovalGetOthers(p)
        \/ ApprovalFanOut(p)
        \/ RejectionCheckChannel(p)
        \/ RejectionFetchRequest(p)
        \/ RejectionUpdateRequest(p)
        \/ RejectionMarkMessage(p)
        \/ RejectionGetOthers(p)
        \/ RejectionFanOut(p)
        \/ RemovalCheckChannel(p)
        \/ RemovalAddProcessing(p)
        \/ RemovalFindTester(p)
        \/ ReportAirTableError(p)
        \/ ReportReactionRoleError(p)
        \/ FinallyRemoveProcessing(p)
    \/ \E t \in pendingAdds : RunPendingAdd(t)

SpecMod == InitMod /\ [][NextMod]_vars

\* testers react on the watched post
InitRole ==
    /\ InitTasks
    /\ cache = {}
    /\ \/ /\ testers = << >>
          /\ requests = << >>
          /\ messages = <<WatchedPost>>
       \/ /\ testers = <<Registered(1, "u1")>>
          /\ requests = << >>
          /\ messages = <<WatchedPost>>
       \/ /\ testers = <<Registered(1, "u1")>>
          /\ requests = <<Request(1, 1, "u1", "A", "PENDING", FALSE,
                                  PyStr(2), << >>),
                          Request(2, 1, "u1", "B", "APPROVED", FALSE,
                                  PyStr(3), << >>)>>
          /\ messages = <<WatchedPost, NotificationMessage,
                          NotificationMessage>>
       \/ /\ testers = <<Registered(1, "u1")>>
          /\ requests = <<Request(1, 1, "u1", "A", "APPROVED", TRUE,
                                  PyStr(2), << >>),
                          Request(2, 1, "u1", "B", "REJECTED", FALSE,
                                  PyStr(3), << >>)>>
          /\ messages = <<WatchedPost, NotificationMessage,
                          NotificationMessage>>
       \/ /\ testers = <<Renamed(1, "u1")>>
          /\ requests = <<Request(1, 1, "u1", "A", "PENDING", FALSE,
                                  PyStr(2), << >>),
                          Request(2, 1, "u1", "B", "REJECTED", FALSE,
                                  PyStr(3), << >>)>>
          /\ messages = <<WatchedPost, NotificationMessage,
                          NotificationMessage>>

RolePayloads ==
    [user : TesterUsers, msg : {WatchedMessage},
     emoji : {"appA", "appB", "appAB"}, channel : {WatchChannel}]

StartRole(p) == \E pl \in RolePayloads : Start(p, pl, "none")

NextRole ==
    \/ \E p \in Procs :
        \/ StartRole(p)
        \/ RoleCheckWatched(p)
        \/ RoleLockEnter(p)
        \/ RoleLockAcquire(p)
        \/ RoleFindTester(p)
        \/ RoleUpsertTester(p)
        \/ RoleListRequests(p)
        \/ RoleAddRequest(p)
        \/ RoleFetchRegistration(p)
        \/ RoleSendRegistration(p)
        \/ RoleSaveRegistration(p)
        \/ RoleSendNotification(p)
        \/ RoleUpdateRequest(p)
        \/ ApprovalCheckChannel(p)
        \/ RejectionCheckChannel(p)
        \/ RemovalCheckChannel(p)
        \/ FinallyRemoveProcessing(p)
    \/ Tick

SpecRole == InitRole /\ [][NextRole]_vars

\* testers react on the watched post with emojis whose mappings have
\* prerequisites or no app
InitGate ==
    /\ pc = [p \in Procs |-> "idle"]
    /\ payload = [p \in Procs |-> NoPayload]
    /\ failAt = [p \in Procs |-> "none"]
    /\ loc = [p \in Procs |-> NoLocals]
    /\ handled = [p \in Procs |-> FALSE]
    /\ exc = [p \in Procs |-> "none"]
    /\ eff = [p \in Procs |-> << >>]
    /\ pendingAdds = {}
    /\ groupMembers = {}
    /\ tester_locks = [u \in TesterUsers \cup {Moderator} |-> ""]
    /\ lockHolder = [l \in Procs |-> ""]
    /\ now = 0
    /\ cache = {}
    /\ memberRoles \in [TesterUsers -> {{}, {RuleAgreementRole},
                                         {RuleAgreementRole, PlainRole}}]
    /\ testers = <<Registered(1, "u1")>>
    /\ requests = << >>
    /\ messages = <<WatchedPost>>

GatePayloads ==
    [user : TesterUsers, msg : {WatchedMessage},
     emoji : {"plain", "plainRules", "rulesA", "closedAC"},
     channel : {WatchChannel}]

\* lookups of the guild that may find nothing
GateFaults(emoji) ==
    {"none"}
    \cup (IF requires_rules_approval(emoji) THEN {"rules_channel"} ELSE {})
    \cup (IF get_reaction_role(emoji) = << >> THEN {"get_role"} ELSE {})

StartGate(p) ==
    \E pl \in GatePayloads : \E f \in GateFaults(pl.emoji) : Start(p, pl, f)

NextGate ==
    \E p \in Procs :
        \/ StartGate(p)
        \/ RoleCheckWatched(p)
        \/ RoleSendRulesNotice(p)
        \/ RoleSendClosedNotice(p)
        \/ RoleGrantRole(p)
        \/ RoleLockEnter(p)
        \/ RoleLockAcquire(p)
        \/ RoleFindTester(p)
        \/ RoleUpsertTester(p)
        \/ RoleListRequests(p)
        \/ RoleAddRequest(p)
        \/ RoleFetchRegistration(p)
        \/ RoleSendRegistration(p)
        \/ RoleSaveRegistration(p)
        \/ RoleSendNotification(p)
        \/ RoleUpdateRequest(p)
        \/ ApprovalCheckChannel(p)
        \/ RejectionCheckChannel(p)
        \/ RemovalCheckChannel(p)
        \/ FinallyRemoveProcessing(p)

SpecGate == InitGate /\ [][NextGate]_vars

\* one collaborator call of each event fails: moderators react on copy 2 of a
\* request with copies 2 and 3, testers on the watched post
InitFault ==
    /\ InitTasks
    /\ messages = <<WatchedPost, NotificationMessage, NotificationMessage>>
    /\ cache \in {{}, {3}}
    /\ testers = <<Registered(1, "u1")>>
    /\ \E t \in {1, 2} : \E app \in {"A", "X"} :
         /\ ~(t = 2 /\ app = "X")
         /\ requests = <<Request(1, t, "u1", app, "PENDING", FALSE, PyStr(2),
                                 <<PyStr(3)>>)>>

DistributionFailures ==
    {"ApiKeyNotSetError", "BetaGroupNotSetError", "InvalidAttributeError",
     "AppStoreConnectError"}

FaultPayloads ==
    [user : {Moderator}, msg : {2}, emoji : {"approve", "reject"},
     channel : {ApprovalChannel}]
    \cup [user : TesterUsers, msg : {WatchedMessage}, emoji : {"appA"},
          channel : {WatchChannel}]

Faults(emoji) ==
    CASE emoji = "approve" -> DistributionFailures
                              \cup {"none", "fetch_request", "fan_out_fetch",
                                    "fan_out_add_reaction", "add_roles",
                                    "send_approval_notification"}
      [] emoji = "reject" -> {"fan_out_fetch", "fan_out_add_reaction"}
      [] OTHER -> {"find_tester"}

StartFault(p) ==
    \E pl \in FaultPayloads : \E f \in Faults(pl.emoji) : Start(p, pl, f)

NextFault ==
    \/ \E p \in Procs :
        \/ StartFault(p)
        \/ RoleCheckWatched(p)
        \/ RoleLockEnter(p)
        \/ RoleLockAcquire(p)
        \/ RoleFindTester(p)
        \/ ApprovalCheckChannel(p)
        \/ ApprovalFetchRequest(p)
        \/ ApprovalFetchTesterApp(p)
        \/ ApprovalAddToGroup(p)
        \/ ApprovalGrantRoles(p)
        \/ ApprovalNotify(p)
        \/ ApprovalUpdateRequest(p)
        \/ ApprovalMarkMessage(p)
        \/ ApprovalGetOthers(p)
        \/ ApprovalFanOut(p)
        \/ RejectionCheckChannel(p)
        \/ RejectionFetchRequest(p)
        \/ RejectionUpdateRequest(p)
        \/ RejectionMarkMessage(p)
        \/ RejectionGetOthers(p)
        \/ RejectionFanOut(p)
        \/ RemovalCheckChannel(p)
        \/ RemovalAddProcessing(p)
        \/ ReportAirTableError(p)
        \/ ReportReactionRoleError(p)
        \/ FinallyRemoveProcessing(p)
    \/ \E t \in pendingAdds : RunPendingAdd(t)

SpecFault == InitFault /\ [][NextFault]_vars

\* moderators react with the removal emoji on the leave messages of two
\* testers and on a notification message
LeaveMessage == NotificationMessage
Left(id, u, mid) == [Registered(id, u) EXCEPT !.leave = {mid}]

InitLeave ==
    /\ payload = [p \in Procs |-> NoPayload]
    /\ failAt = [p \in Procs |-> "none"]
    /\ loc = [p \in Procs |-> NoLocals]
    /\ handled = [p \in Procs |-> FALSE]
    /\ exc = [p \in Procs |-> "none"]
    /\ eff = [p \in Procs |-> << >>]
    /\ pendingAdds = {}
    /\ memberRoles = [u \in TesterUsers |-> {}]
    /\ tester_locks = [u \in TesterUsers \cup {Moderator} |-> ""]
    /\ lockHolder = [l \in Procs |-> ""]
    /\ now = 0
    /\ cache = {}
    /\ messages = <<LeaveMessage, LeaveMessage, NotificationMessage>>
    /\ testers = <<Left(1, "u1", 1), Left(2, "u2", 2)>>
    /\ \/ /\ requests = <<Request(1, 1, "u1", "A", "APPROVED", FALSE,
                                  PyStr(3), << >>),
                          Request(2, 1, "u1", "B", "PENDING", FALSE,
                                  PyNone, << >>),
                          Request(3, 2, "u2", "A", "APPROVED", FALSE,
                                  PyNone, << >>)>>
          /\ groupMembers \in {{<<"u1", "A">>, <<"u2", "A">>}, {}}
       \/ /\ requests = <<Request(1, 1, "u1", "A", "APPROVED", TRUE,
                                  PyNone, << >>),
                          Request(2, 1, "u1", "A", "APPROVED", FALSE,
                                  PyStr(3), << >>),
                          Request(3, 1, "u1", "B", "REJECTED", FALSE,
                                  PyNone, << >>),
                          Request(4, 2, "u2", "B", "APPROVED", FALSE,
                                  PyNone, << >>)>>
          /\ groupMembers \in {{<<"u1", "A">>, <<"u1", "B">>, <<"u2", "B">>},
                               {<<"u1", "A">>}}
    /\ pc = [p \in Procs |-> "idle"]

LeavePayloads ==
    [user : {Moderator}, msg : {1, 2, 3}, emoji : {"remove"},
     channel : {ApprovalChannel}]

StartLeave(p) == \E pl \in LeavePayloads : Start(p, pl, "none")

NextLeave ==
    \E p \in Procs :
        \/ StartLeave(p)
        \/ RoleCheckWatched(p)
        \/ ApprovalCheckChannel(p)
        \/ RejectionCheckChannel(p)
        \/ RemovalCheckChannel(p)
        \/ RemovalAddProcessing(p)
        \/ RemovalFindTester(p)
        \/ RemovalFindBetaTester(p)
        \/ RemovalDeleteBetaTester(p)
        \/ RemovalListRequests(p)
        \/ RemovalUpdateRequests(p)
        \/ RemovalMarkDone(p)
        \/ FinallyRemoveProcessing(p)

SpecLeave == InitLeave /\ [][NextLeave]_vars

\* ------------------------------------------------------------ properties
Finished == {"returned", "raised"}
Kinds(p, handler) ==
    {e[2] : e \in {x \in Range(eff[p]) : x[1] = handler}}
Count(p, handler, kind) ==
    Cardinality({i \in 1..Len(eff[p]) :
                    eff[p][i][1] = handler /\ eff[p][i][2] = kind})
\* handle_role_approval of task p has run to its end
ApprovalOver(p) ==
    pc[p] \in {"rj_check", "rm_check", "rm_processing", "rm_find", "finally"}
              \cup Finished
ApprovedIndicators == {"success", "ack"}

\* C1: the stored status of a request never goes from REJECTED to APPROVED
\* nor from APPROVED to REJECTED, whatever the interleaving of handlers.
C1_NoConflictingTransition ==
    [][\A i \in 1..Len(requests) :
        /\ ~(requests[i].status = "REJECTED" /\ requests'[i].status = "APPROVED")
        /\ ~(requests[i].status = "APPROVED" /\ requests'[i].status = "REJECTED")
      ]_vars

C4_AllCopiesMarkedAtFinish ==
    \A p \in Procs :
        (/\ payload[p].emoji = "approve"
         /\ failAt[p] = "none"
         /\ ApprovalOver(p)
         /\ loc[p].fetched \in {"PENDING", "APPROVED"}
         /\ Len(loc[p].request.further) = 2)
        => \A m \in 1..3 : messages[m].reactions \cap ApprovedIndicators # {}

\* C5: the fan-out of an approval issues no add-marker call for another
\* notification copy that already carries the acknowledged marker or the
\* success marker, so approving a second time, after the first approval
\* is over, adds nothing.
C5_NoRedundantMark ==
    [][\A t \in pendingAdds' \ pendingAdds :
          (/\ t[3] = "ack"
           /\ t[2] # payload[t[1]].msg
           /\ \A q \in Procs \ {t[1]} : pc[q] \in Finished \cup {"idle"})
          => messages[t[2]].reactions \cap ApprovedIndicators = {}
      ]_vars

\* C7: a removal emoji on an own message in an approval channel, with no
\* tester recorded for that message, posts one failure report and
\* handle_reaction returns True.
C7_RemovalWithoutTesterHandled ==
    \A p \in Procs :
        (/\ pc[p] \in Finished
         /\ payload[p].emoji = "remove"
         /\ failAt[p] = "none"
         /\ check_valid_role_reaction_channel(p)
         /\ find_tester_by_leave_message(payload[p].msg) = NoTester)
        => /\ pc[p] = "returned"
           /\ Count(p, "removal", "reply") = 1
           /\ handled[p]

\* C8: an approval of a PENDING request with no failure and no other
\* approval or rejection in progress ends with the stored status APPROVED,
\* the tester holding the app's roles, one private approval notice and the
\* success marker on the reacted message.
C8_ApprovalOutcome ==
    \A p \in Procs :
        (/\ payload[p].emoji = "approve"
         /\ failAt[p] = "none"
         /\ ApprovalOver(p)
         /\ loc[p].fetched = "PENDING"
         /\ \A q \in Procs \ {p} : payload[q].emoji \notin {"approve", "reject"})
        => /\ requests[loc[p].request.id].status = "APPROVED"
           /\ AppRoles(loc[p].request.app)
                 \subseteq memberRoles[loc[p].request.tester_discord_id]
           /\ Count(p, "approval", "dm_approved") = 1
           /\ "success" \in messages[payload[p].msg].reactions

C8_Witness ==
    \E p \in Procs :
        /\ payload[p].emoji = "approve" /\ failAt[p] = "none"
        /\ pc[p] = "returned" /\ loc[p].fetched = "PENDING"
        /\ \A q \in Procs \ {p} : payload[q].emoji = "other"
        /\ requests[1].status = "APPROVED"

\* C9: the step with which handle_reaction finishes, by return or with an
\* exception propagating, leaves no processing marker on the target message.
C9_ProcessingMarkerCleared ==
    [][\A p \in Procs :
          (pc[p] \notin Finished /\ pc'[p] \in Finished)
          => processing_emoji \notin messages'[payload[p].msg].reactions
      ]_vars

C9_Witness ==
    \E p \in Procs :
        /\ pc[p] = "raised"
        /\ <<"removal", "add_reaction", processing_emoji>> \in Range(eff[p])
        /\ processing_emoji \notin messages[payload[p].msg].reactions

\* requests the task created, by record id
Created(p) ==
    {e[3] : e \in {x \in Range(eff[p]) : x[1] = "role" /\ x[2] = "add_request"}}
\* when the task sent its registration prompt, if it did
PromptTimes(p) ==
    {e[3] : e \in {x \in Range(eff[p]) :
                      x[1] = "role" /\ x[2] = "dm_registration"}}
Apart(a, b) == a + CooldownMinutes <= b \/ b + CooldownMinutes <= a

\* C2: two concurrently handled reactions of one tester for one role, the
\* tester having no other non-removed request for its apps, create exactly
\* one request between them.
C2_OneRequestCreated ==
    \A p, q \in Procs :
        (/\ p # q
         /\ pc[p] \in Finished /\ pc[q] \in Finished
         /\ payload[p].user = payload[q].user
         /\ payload[p].emoji = payload[q].emoji
         /\ \A i \in 1..Len(requests) :
               (/\ requests[i].tester_discord_id = payload[p].user
                /\ requests[i].app \in Range(loc[p].app_ids)
                /\ ~requests[i].removed)
               => i \in Created(p) \cup Created(q))
        => Cardinality(Created(p) \cup Created(q)) = 1

C2_Witness ==
    \E p, q \in Procs :
        /\ p # q
        /\ payload[p].user = payload[q].user
        /\ payload[p].emoji = payload[q].emoji
        /\ pc[q] = "rr_lockwait"
        /\ lockHolder[loc[q].lock] = p
        /\ Cardinality(Created(p)) = 1

\* C6: two reactions of a tester without email send one registration prompt
\* between them, and a second one only when the recorded prompt is at least
\* 30 minutes old.
C6_OnePromptPerCooldown ==
    \A p, q \in Procs :
        (/\ p # q
         /\ payload[p].user = payload[q].user
         /\ payload[p].user \in TesterUsers
         /\ ~find_tester(payload[p].user).email)
        => /\ \A a \in PromptTimes(p) : \A b \in PromptTimes(q) : Apart(a, b)
           /\ (pc[p] \in Finished /\ pc[q] \in Finished)
              => PromptTimes(p) \cup PromptTimes(q) # {}

C6_Witness ==
    \E p, q \in Procs :
        /\ p # q
        /\ payload[p].user = payload[q].user
        /\ pc[p] \in Finished /\ pc[q] \in Finished
        /\ PromptTimes(p) # {} /\ PromptTimes(q) = {}
        /\ loc[q].tester.reg # PyNone /\ ~loc[q].tester.email
        /\ now < MaxTime

\* C10: no (tester, app) pair has two requests that are neither removed nor
\* REJECTED; a reaction that finds such a request creates none and writes
\* its notification to the oldest request it found.
C10_OneActiveRequest ==
    /\ \A i, j \in 1..Len(requests) :
          (/\ requests[i].tester_discord_id = requests[j].tester_discord_id
           /\ requests[i].app = requests[j].app
           /\ ~requests[i].removed /\ ~requests[j].removed
           /\ requests[i].status # "REJECTED"
           /\ requests[j].status # "REJECTED")
          => i = j
    /\ \A p \in Procs :
          Len(loc[p].existing) > 0
          => /\ Created(p) = {}
             /\ \A e \in Range(eff[p]) :
                   e[2] = "update_request"
                   => \A k \in 1..Len(loc[p].existing) :
                         e[3] <= loc[p].existing[k].id

C10_Witness ==
    \E p \in Procs :
        /\ pc[p] \in Finished
        /\ Len(loc[p].existing) = 2
        /\ \E e \in Range(eff[p]) : e[2] = "update_request"
        /\ Len(requests[1].further) = 1

\* upsert_tester calls the task made
Upserts(p) == Count(p, "role", "upsert_tester")

\* C11: whatever the sequence and interleaving of role reactions, also of
\* concurrent reactions of one user, the store holds at most one Tester
\* record per chat user id.
C11_OneTesterPerUser ==
    \A i, j \in 1..Len(testers) :
        testers[i].discord_id = testers[j].discord_id => i = j

C11_Witness ==
    \E p, q \in Procs :
        /\ p # q
        /\ payload[p].user = "u2" /\ payload[q].user = "u2"
        /\ pc[p] \in Finished /\ pc[q] \in Finished
        /\ Upserts(p) >= 1 /\ Upserts(q) >= 1
        /\ Len(testers) = 1 /\ testers[1].discord_id = "u2"

\* C12: the upsert of handle_role_reaction, made for an actor whose stored
\* Tester already carries the member's id and name, leaves the tester store
\* as it was.
C12_IdenticalUpsertWritesNothing ==
    [][\A p \in Procs :
          (/\ pc[p] = "rr_upsert" /\ pc'[p] = "rr_list"
           /\ find_tester(payload[p].user) # NoTester
           /\ find_tester(payload[p].user).username = payload[p].user)
          => testers' = testers
      ]_vars

C12_Witness ==
    \E p, q \in Procs :
        /\ p # q
        /\ payload[p].user = "u2" /\ payload[q].user = "u2"
        /\ pc[q] \in Finished /\ Upserts(q) >= 1
        /\ pc[p] = "rr_list" /\ Upserts(p) = 1
        /\ loc[p].tester = testers[1]
        /\ Len(testers) = 1

\* C13: for one event the handlers act in the order role reaction, approval,
\* rejection, removal, and once one of them has acted for the event, no
\* later one makes any outbound call for it.
C13_NoLaterDisposition ==
    \A p \in Procs :
        /\ Kinds(p, "role") # {}
           => Kinds(p, "approval") \cup Kinds(p, "rejection")
                 \cup Kinds(p, "removal") = {}
        /\ Kinds(p, "approval") # {}
           => Kinds(p, "rejection") \cup Kinds(p, "removal") = {}
        /\ Kinds(p, "rejection") # {} => Kinds(p, "removal") = {}

\* C14: an event whose emoji is in none of the approval, rejection and
\* removal sets, on an own message in an approval channel, with every call
\* succeeding, makes no outbound call at all and raises nothing.
C14_UnmatchedEventNoAction ==
    \A p \in Procs :
        (payload[p].emoji = "other" /\ failAt[p] = "none")
        => eff[p] = << >> /\ pc[p] # "raised"

\* positions inside `async with self.tester_locks...` (lines 277-342)
Guarded ==
    {"rr_find", "rr_upsert", "rr_list", "rr_add", "rr_fetchreg",
     "rr_sendreg", "rr_savereg"}
InGuard(p) == pc[p] \in Guarded

\* C15: no two handlers of one acting user are inside the guarded section
\* at once, and a handler waiting for the guard waits only for a handler of
\* the same user.
C15_OneHandlerPerUserInGuard ==
    /\ \A p, q \in Procs :
          (p # q /\ InGuard(p) /\ InGuard(q))
          => payload[p].user # payload[q].user
    /\ \A p \in Procs :
          (pc[p] = "rr_lockwait" /\ lockHolder[loc[p].lock] # "")
          => payload[lockHolder[loc[p].lock]].user = payload[p].user

C15_Witness ==
    \E p, q \in Procs :
        /\ p # q
        /\ payload[p].user = payload[q].user
        /\ pc[p] = "rr_upsert"
        /\ pc[q] = "rr_lockwait"

\* C16: the lock table has an entry for a user only while some handler of
\* that user holds the entry's lock or waits for it.
C16_LockTableOnlyLiveEntries ==
    \A u \in DOMAIN tester_locks :
        tester_locks[u] # ""
        => \E p \in Procs :
              /\ payload[p].user = u
              /\ loc[p].lock = tester_locks[u]
              /\ \/ pc[p] = "rr_lockwait"
                 \/ InGuard(p) /\ lockHolder[tester_locks[u]] = p

C16_Witness ==
    \E p, q \in Procs :
        /\ p # q
        /\ pc[p] \in Finished /\ pc[q] \in Finished
        /\ Upserts(p) >= 1 /\ Upserts(q) >= 1
        /\ payload[p].user # payload[q].user
        /\ \A u \in DOMAIN tester_locks : tester_locks[u] = ""

\* the task holds a per-user lock
Holds(p) == \E l \in DOMAIN lockHolder : lockHolder[l] = p
\* kinds of the outbound calls the task makes in this step
NewKinds(p) == {eff'[p][i][2] : i \in (Len(eff[p]) + 1)..Len(eff'[p])}
StoreCalls == {"upsert_tester", "add_request", "update_request"}

\* C17 as stated: a handler holding the per-user guard makes store calls
\* only, no call to the chat platform.
C17_NoChatCallUnderGuard ==
    [][\A p \in Procs : Holds(p) => NewKinds(p) \subseteq StoreCalls]_vars

\* C17, amended: a handler holding the per-user guard makes store calls
\* and, for a tester without email, sends the registration prompt; the
\* notification into the approval channel is sent without the guard.
C17_OnlyPromptUnderGuard ==
    [][\A p \in Procs :
          /\ Holds(p) => NewKinds(p) \subseteq StoreCalls \cup {"dm_registration"}
          /\ "notification" \in NewKinds(p) => ~Holds(p) /\ loc[p].lock = ""
      ]_vars

C17_Witness ==
    \E p, q \in Procs :
        /\ pc[p] = "rr_savereg" /\ Holds(p) /\ PromptTimes(p) # {}
        /\ pc[q] = "rr_updreq" /\ ~Holds(q)

\* notification message ids the task sent
Sent(p) ==
    {e[3] : e \in {x \in Range(eff[p]) :
                      x[1] = "role" /\ x[2] = "notification"}}
\* the message id is the primary or a further notification id of a request
Recorded(n) ==
    \E i \in 1..Len(requests) :
        \/ requests[i].notif = PyStr(n)
        \/ PyStr(n) \in Range(requests[i].further)

\* C18: every notification a role reaction has sent is, once its handler
\* is over, on record in the store as the primary or a further notification
\* id of a request, also when two reactions of one tester send at once.
C18_EveryNotificationRecorded ==
    \A p \in Procs :
        pc[p] \in Finished => \A n \in Sent(p) : Recorded(n)

\* the listing the task got holds a REJECTED request
ListedRejected(p) ==
    \E i \in 1..Len(loc[p].existing) : loc[p].existing[i].status = "REJECTED"

\* C19: a role reaction whose listing of the tester's non-removed requests
\* for the role's apps holds a REJECTED one creates no request, sends no
\* registration prompt and no notification, reports and raises nothing,
\* also when the listing holds other requests that are not REJECTED.
C19_RejectedAbortsSilently ==
    \A p \in Procs :
        ListedRejected(p)
        => /\ Created(p) = {}
           /\ PromptTimes(p) = {}
           /\ Sent(p) = {}
           /\ "reply" \notin Kinds(p, "reporter")
           /\ exc[p] = "none" /\ pc[p] # "raised"

C19_Witness ==
    \E p \in Procs :
        /\ pc[p] = "returned"
        /\ Len(loc[p].existing) = 2
        /\ loc[p].existing[1].status = "PENDING"
        /\ loc[p].existing[2].status = "REJECTED"
        /\ Upserts(p) = 1

\* C20: a role reaction of a tester without email sends no notification
\* into the approval channel and never reaches the notification step.
C20_NoEmailNoNotification ==
    \A p \in Procs :
        (/\ payload[p].user \in TesterUsers
         /\ ~find_tester(payload[p].user).email)
        => /\ Sent(p) = {}
           /\ pc[p] \notin {"rr_notify", "rr_updreq"}

C20_Witness ==
    \E p, q \in Procs :
        /\ p # q
        /\ payload[p].user = payload[q].user
        /\ ~find_tester(payload[p].user).email
        /\ pc[p] = "returned" /\ pc[q] = "returned"
        /\ Created(p) # {} /\ PromptTimes(p) # {}
        /\ Len(loc[q].existing) = 1 /\ PromptTimes(q) # {}
        /\ Sent(p) \cup Sent(q) = {}

\* ids of all notification copies a request has on record
CopyIds(r) ==
    (IF PyBool(r.notif) THEN {r.notif[2]} ELSE {})
    \cup {f[2] : f \in Range(r.further)}

\* C26: the other copies get_other_request_messages hands to the fan-out are
\* the request's primary id plus its further ids, minus the reacted message,
\* whether that message is the primary copy or a further one.
C26_FanOutExcludesReacted ==
    \A p \in Procs :
        pc[p] \in {"ap_fanout", "rj_fanout"}
        => {o.id : o \in loc[p].others}
              = CopyIds(loc[p].request) \ {payload[p].msg}

\* the handler and the primary marker a fan-out marker belongs to
HandlerOf(marker) == IF marker = "ack" THEN "approval" ELSE "rejection"
PrimaryOf(marker) == IF marker = "ack" THEN "success" ELSE "rejected"
\* the task has written the request and marked the reacted message
WrittenAndMarked(p, marker) ==
    /\ Count(p, HandlerOf(marker), "update_request") = 1
    /\ Count(p, HandlerOf(marker), "add_reaction") = 1
    /\ PrimaryOf(marker) \in messages[payload[p].msg].reactions

\* C27: in approval and in rejection, an add-marker call for another
\* notification copy is created, and runs, only after the handler's store
\* write of the new status has succeeded and the reacted message carries the
\* primary outcome marker; the primary marker itself comes after the write.
C27_FanOutAfterWriteAndMark ==
    [][/\ \A t \in (pendingAdds' \ pendingAdds) \cup (pendingAdds \ pendingAdds') :
             WrittenAndMarked(t[1], t[3])
       /\ \A p \in Procs :
             (pc[p] \in {"ap_mark", "rj_mark"} /\ pc'[p] # pc[p])
             => Count(p, IF pc[p] = "ap_mark" THEN "approval" ELSE "rejection",
                      "update_request") = 1
      ]_vars

C27_Witness ==
    \E p, q \in Procs :
        /\ payload[p].emoji = "approve" /\ payload[q].emoji = "reject"
        /\ payload[p].msg = 1 /\ payload[q].msg = 2
        /\ pc[p] = "returned" /\ pc[q] = "returned"
        /\ "ack" \in messages[3].reactions
        /\ "rejack" \in messages[3].reactions
        /\ pendingAdds = {}

\* C28: a rejection whose fetched status is not APPROVED, with no failure
\* and no approval by another task, ends with the stored status REJECTED,
\* the rejection marker on the reacted message, an add-marker call issued
\* for every other notification copy and handled = True; it makes no
\* distribution-API call, no role change and no private notification.
C28_RejectionOutcome ==
    \A p \in Procs :
        (/\ payload[p].emoji = "reject"
         /\ failAt[p] = "none"
         /\ pc[p] \in Finished
         /\ loc[p].fetched \in {"PENDING", "REJECTED"}
         /\ \A q \in Procs \ {p} : payload[q].emoji # "approve")
        => /\ requests[loc[p].request.id].status = "REJECTED"
           /\ "rejected" \in messages[payload[p].msg].reactions
           /\ \A m \in CopyIds(loc[p].request) \ {payload[p].msg} :
                 \/ "rejack" \in messages[m].reactions
                 \/ <<p, m, "rejack">> \in pendingAdds
           /\ pc[p] = "returned" /\ handled[p]
           /\ Kinds(p, "approval") \cup Kinds(p, "removal") = {}
           /\ Kinds(p, "rejection") = {"update_request", "add_reaction"}
           /\ \A u \in TesterUsers : memberRoles[u] = {}
           /\ groupMembers = {}

C28_Witness ==
    \E p \in Procs :
        /\ payload[p].emoji = "reject" /\ failAt[p] = "none"
        /\ pc[p] = "returned" /\ loc[p].fetched = "REJECTED"
        /\ Len(loc[p].request.further) = 2
        /\ \A q \in Procs \ {p} : payload[q].emoji = "reject"
        /\ \A m \in 1..3 : messages[m].reactions \cap {"rejected", "rejack"} # {}

\* C21: an approval that fetched an APPROVED request, with no failure,
\* sends no private approval notice, while it still asks the distribution
\* API for the tester's group, leaves the tester with the app's roles,
\* writes the request and marks the reacted message.
C21_ReapprovalNoNotice ==
    \A p \in Procs :
        (/\ payload[p].emoji = "approve"
         /\ failAt[p] = "none"
         /\ ApprovalOver(p)
         /\ loc[p].fetched = "APPROVED")
        => /\ Count(p, "approval", "dm_approved") = 0
           /\ Count(p, "approval", "dist_find") = 1
           /\ AppRoles(loc[p].request.app)
                 \subseteq memberRoles[loc[p].request.tester_discord_id]
           /\ Count(p, "approval", "update_request") = 1
           /\ Count(p, "approval", "add_reaction") = 1
           /\ "success" \in messages[payload[p].msg].reactions

C21_Witness ==
    \E p, q \in Procs :
        /\ p # q
        /\ payload[p].emoji = "approve" /\ failAt[p] = "none"
        /\ pc[p] = "returned" /\ loc[p].fetched = "APPROVED"
        /\ pc[q] = "returned" /\ Count(q, "approval", "dm_approved") = 1
        /\ Count(p, "approval", "update_request") = 1

\* the approval of task p has called the distribution API
CalledDistribution(p) == Count(p, "approval", "dist_find") >= 1

\* C22: when adding the tester to the distribution group fails with missing
\* credentials, missing group configuration or an invalid attribute, the
\* approval posts one report and stops without raising: no role grant, no
\* private notice, no store write, no success marker.
C22_ConfigFailureStopsApproval ==
    \A p \in Procs :
        (/\ payload[p].emoji = "approve"
         /\ failAt[p] \in {"ApiKeyNotSetError", "BetaGroupNotSetError",
                           "InvalidAttributeError"}
         /\ CalledDistribution(p))
        => /\ Kinds(p, "approval") = {"dist_find", "reply"}
           /\ Count(p, "approval", "reply") = 1
           /\ exc[p] = "none" /\ pc[p] # "raised"

\* C23: when the distribution API fails in any other way, the approval
\* grants no role, sends no private notice and writes nothing, and ends
\* with the failure posted by the reporter or propagated.
C23_OtherFailureIsFatal ==
    \A p \in Procs :
        (/\ payload[p].emoji = "approve"
         /\ failAt[p] = "AppStoreConnectError"
         /\ CalledDistribution(p))
        => /\ Kinds(p, "approval") = {"dist_find"}
           /\ pc[p] \in Finished
              => pc[p] = "raised" \/ Count(p, "reporter", "reply") >= 1

\* the request the approval fetched has no tester record or no app record
MissingRecord(p) ==
    /\ payload[p].emoji = "approve"
    /\ loc[p].fetched \in {"PENDING", "APPROVED"}
    /\ \/ fetch_tester(loc[p].request.tester) = NoTester
       \/ ~fetch_app(loc[p].request.app)

\* C24: an approval whose request has no tester record or no app record
\* raises a ReactionRoleError that carries the reacted message as reference
\* and the reacting member, and has made no distribution call, role grant,
\* notice, store write or marker.
C24_MissingRecordRaises ==
    \A p \in Procs :
        (MissingRecord(p) /\ pc[p] # "ap_fetch_ta")
        => /\ pc[p] \in {"ex_rre", "finally", "returned"}
           /\ pc[p] = "ex_rre" => exc[p] = "ReactionRoleError"
           /\ loc[p].err = [ref |-> payload[p].msg, member |-> payload[p].user]
           /\ Kinds(p, "approval") \cup Kinds(p, "rejection")
                 \cup Kinds(p, "removal") = {}
           /\ requests[loc[p].request.id].status
                 \in {loc[p].fetched, "REJECTED"}
           /\ \A t \in pendingAdds : t[1] # p
           /\ pc[p] = "returned"
              => handled[p] /\ Count(p, "reporter", "reply") = 1

C24_Witness ==
    \E p, q \in Procs :
        /\ pc[p] = "ex_rre" /\ loc[p].request.app = "X"
        /\ exc[p] = "ReactionRoleError"
        /\ pc[q] = "returned" /\ MissingRecord(q)

\* a fetch or an add-marker call of task p's fan-out has failed
FanOutFailed(p) ==
    {"fetch_failed", "mark_failed"}
       \cap (Kinds(p, "approval") \cup Kinds(p, "rejection")) # {}

\* C25: when fetching or marking another notification copy fails during
\* the fan-out, the handler raises a ReactionRoleError and the reporter
\* posts it; the failure is not dropped.
C25_FanOutFailureReported ==
    \A p \in Procs :
        (FanOutFailed(p) /\ pc[p] \in Finished)
        => pc[p] = "returned" /\ Count(p, "reporter", "reply") = 1

\* the store call of task p that raises AirTableError outside any try
StoreFailure(p) == failAt[p] \in {"find_tester", "fetch_request"}

RemovalTarget(p, i) ==
    /\ requests[i].tester_discord_id = loc[p].tester.discord_id
    /\ requests[i].app \in loc[p].removed_app_ids
    /\ requests[i].status = "APPROVED"
    /\ ~requests[i].removed

RaisedReactionRoleError(p) == loc[p].err.ref # 0

\* C31: a ReactionRoleError raised by a handler is posted by the reporter
\* exactly once, as a reply to the reference it carries and with the
\* mention of the member it carries, and handle_reaction returns True; a
\* failure that is neither a ReactionRoleError nor an AirTableError is not
\* posted and leaves handle_reaction as an exception.
C31_WorkflowFailureReported ==
    \A p \in Procs :
        pc[p] \in Finished
        => /\ RaisedReactionRoleError(p)
              => /\ pc[p] = "returned" /\ handled[p]
                 /\ Count(p, "reporter", "reply") = 1
                 /\ <<"reporter", "reply", "reaction_role_error",
                      payload[p].msg, payload[p].user>> \in Range(eff[p])
           /\ exc[p] \notin {"none", "AirTableError", "ReactionRoleError"}
              => /\ pc[p] = "raised"
                 /\ Count(p, "reporter", "reply") = 0
           /\ pc[p] = "raised"
              => exc[p] \notin {"none", "AirTableError", "ReactionRoleError"}

C31_Witness ==
    \E p, q \in Procs :
        /\ pc[p] = "returned" /\ RaisedReactionRoleError(p) /\ handled[p]
        /\ Count(p, "reporter", "reply") = 1
        /\ pc[q] = "raised" /\ exc[q] = "ExceptionGroup"
        /\ Count(q, "reporter", "reply") = 0

\* task p handles a reaction whose mapping has no app and whose role
\* exists, and the rules prerequisite, if any, is met
PlainReaction(p) ==
    /\ payload[p].emoji \in {"plain", "plainRules"}
    /\ failAt[p] # "get_role"
    /\ requires_rules_approval(payload[p].emoji)
       => RuleAgreementRole \in loc[p].roles

\* C32: for a mapping without an app the grant call is issued only for an
\* actor who does not hold the role, the actor holds the role once the
\* handler is over, and no tester or request record is created.
C32_GrantOnlyIfNotHeld ==
    [][\A p \in Procs :
         PlainReaction(p)
         => /\ Count(p, "role", "add_roles")' > Count(p, "role", "add_roles")
               => PlainRole \notin memberRoles[payload[p].user]
            /\ pc'[p] \in Finished
               => PlainRole \in memberRoles'[payload[p].user]
            /\ Kinds(p, "role")' \subseteq {"add_roles"}
      ]_vars

\* task p handles a reaction whose mapping requires the rules to be
\* accepted, from a member without the rules-acceptance role
LacksRules(p) ==
    /\ payload[p].msg \in WatchedMessageIds
    /\ requires_rules_approval(payload[p].emoji)
    /\ RuleAgreementRole \notin loc[p].roles

\* C33: a role reaction on a mapping that requires the rules, from a member
\* without the rules-acceptance role, sends that member one private
\* explanation and does nothing else: no role, no tester or request record,
\* no registration prompt, no notification.
C33_RulesGateOnlyExplains ==
    \A p \in Procs :
        (LacksRules(p) /\ pc[p] \in Finished)
        => /\ Count(p, "role", "dm_rules") = 1
           /\ Kinds(p, "role") = {"dm_rules"}

\* the same without the demand that the explanation was sent
C33_RulesGateNoOtherAction ==
    \A p \in Procs :
        (LacksRules(p) /\ pc[p] \notin {"idle", "rr_watched"})
        => /\ Kinds(p, "role") \subseteq {"dm_rules"}
           /\ Count(p, "role", "dm_rules") <= 1
           /\ failAt[p] # "rules_channel" /\ pc[p] \in Finished
              => Count(p, "role", "dm_rules") = 1

\* task p handles a reaction whose mapping has an app that is not open,
\* from a member who meets the rules prerequisite
ClosedBeta(p) ==
    /\ payload[p].msg \in WatchedMessageIds
    /\ payload[p].emoji \in MappedEmojis
    /\ \E a \in Range(get_reaction_role(payload[p].emoji)) : ~beta_open(a)
    /\ ~LacksRules(p)

\* C34: when an app of the reacted mapping is not accepting signups, the
\* member gets one private notice and nothing else is done: no role, no
\* tester record created or updated, no request.
C34_ClosedBetaOnlyNotifies ==
    \A p \in Procs :
        (ClosedBeta(p) /\ pc[p] \notin {"idle", "rr_watched"})
        => /\ Kinds(p, "role") \subseteq {"dm_closed"}
           /\ pc[p] \in Finished => Count(p, "role", "dm_closed") = 1
           /\ pc[p] \in Finished /\ (\A q \in Procs : ClosedBeta(q))
              => /\ memberRoles[payload[p].user] = loc[p].roles
                 /\ testers = <<Registered(1, "u1")>>
                 /\ requests = << >>

C34_Witness ==
    \E p, q \in Procs :
        /\ p # q
        /\ ClosedBeta(p) /\ pc[p] = "returned"
        /\ Count(p, "role", "dm_closed") = 1
        /\ ClosedBeta(q) /\ pc[q] = "returned"
        /\ payload[p].user # payload[q].user

\* C35: a notification message carries the success marker only while the
\* stored status of its request is APPROVED and the rejection marker only
\* while it is REJECTED, and never both, under any interleaving of approval
\* and rejection handlers.
C35_MarkersAgreeWithStatus ==
    \A i \in 1..Len(requests) :
        \A m \in CopyIds(requests[i]) \cap (1..Len(messages)) :
            /\ "success" \in messages[m].reactions
               => requests[i].status = "APPROVED"
            /\ "rejected" \in messages[m].reactions
               => requests[i].status = "REJECTED"
            /\ ~({"success", "rejected"} \subseteq messages[m].reactions)

\* the private approval notices sent by task p
ApprovalNotices(p) == Count(p, "approval", "dm_approved")

\* C36: the tester of a request gets at most one private approval notice,
\* whatever the sequence and interleaving of approval reactions (there is
\* one request in this specification).
C36_OneApprovalNotice ==
    ApprovalNotices("h1") + ApprovalNotices("h2") <= 1

\* the approval of task p has failed at add_roles or at the private notice
GrantOrNoticeFailed(p) ==
    /\ failAt[p] \in {"add_roles", "send_approval_notification"}
    /\ RaisedReactionRoleError(p)
    /\ ~MissingRecord(p)

\* no task has written the request
NoStoreWrite ==
    \A q \in Procs : /\ Count(q, "approval", "update_request") = 0
                     /\ Count(q, "rejection", "update_request") = 0

\* C37: an approval that fails at the role grant or at the private notice
\* has not written the request (with no other writer the stored status is
\* the one before the reaction) and has added no marker, while the
\* distribution group membership, and for a failed notice the roles, stay
\* granted.
C37_FailedApprovalWritesNothing ==
    \A p \in Procs :
        GrantOrNoticeFailed(p)
        => /\ Count(p, "approval", "update_request") = 0
           /\ Count(p, "approval", "add_reaction") = 0
           /\ NoStoreWrite => requests[loc[p].request.id].status = "PENDING"
           /\ (\A q \in Procs : Kinds(q, "approval") \cap
                                   {"add_reaction"} = {})
              => "success" \notin messages[payload[p].msg].reactions
           /\ <<loc[p].tester.discord_id, loc[p].request.app>>
                 \in groupMembers
           /\ failAt[p] = "send_approval_notification"
              => AppRoles(loc[p].request.app)
                    \subseteq memberRoles[loc[p].tester.discord_id]

C37_Witness ==
    \E p, q \in Procs :
        /\ GrantOrNoticeFailed(p) /\ failAt[p] = "add_roles"
        /\ GrantOrNoticeFailed(q) /\ failAt[q] = "send_approval_notification"
        /\ pc[p] = "returned" /\ pc[q] = "returned"
        /\ NoStoreWrite
        /\ requests[1].status = "PENDING"
        /\ <<"u1", "A">> \in groupMembers
        /\ "roleA" \in memberRoles["u1"]

====
